---- MODULE Spec2Model ----
(***************************************************************************)
(* A model of the go-telegram-forwarder-bot runtime: the blacklist engine, *)
(* the fan-out pipeline with its mapping store and reply resolver, and the *)
(* bot supervisor.  Each subsystem has its own specification over the one  *)
(* set of variables; a specification leaves the other subsystems' state    *)
(* at its initial value.  The rate limiter, the retry executor and the     *)
(* manager control surface (/addbot and bot deletion) follow the same      *)
(* pattern.                                                                *)
(***************************************************************************)
EXTENDS Integers, Sequences, FiniteSets, TLC

VARIABLES
    \* ---- blacklist engine (internal/service/blacklist, blacklist_repo) ----
    now,          \* wall clock, in hours
    tickerC,      \* the auto-approve worker's ticker channel holds a tick
    guests,       \* guest_user_id of every Guest row of the bot
    blacklists,   \* the blacklists table, in insertion order; the index is the id
    creating,     \* a Create*Request call between its read and its insert
    ret,          \* what the last finished Create*Request call returned
    \* ---- fan-out pipeline, mapping store, reply resolver (message/forwarder.go) ----
    recipients,   \* the live Recipient rows of the bot
    nextId,       \* per chat, the id the next message of that chat gets
    mappings,     \* the message_mappings table, in insertion order
    fwd,          \* the ForwardToRecipients call in progress
    tasks,        \* its per-recipient goroutines
    result,       \* its ForwardResult
    updateId,     \* the number of message updates the bot has received
    apiTokens,    \* tokens of the rate_limit:telegram_api bucket
    forwarded,    \* the copies the platform made on ForwardMessage calls
    successes,    \* the forwards counted as successful
    dropped,      \* the messages ignored because IsBlacklisted returned true
    \* ---- bot supervisor (BotManager, ForwarderBot) ----
    bots,         \* BotManager.bots: bot id -> the ForwarderBot instance it holds
    instances,    \* every ForwarderBot instance created, with its goroutine
    startCalls,   \* per bot id, the StartBot calls made
    \* ---- rate limiter (message/rate_limiter.go) ----
    config,       \* config.RateLimit: the rate of each scope, per second
    clock,        \* time.Now(), in ticks
    memoryStore,  \* RateLimiter.memoryStore: key -> token bucket
    allowLog,     \* per key, the allow calls made: their time and their answer
    \* ---- retry executor (RetryHandler.Retry) ----
    retry,        \* the Retry call in progress: its loop variables and position
    ctxDone,      \* the call's context is cancelled
    \* ---- manager control surface (manager_bot: /addbot, delete) ----
    botRows,      \* the forwarder_bots table; the index is the bot id
    recipientRows,\* the recipients rows written by /addbot
    auditLogs,    \* the audit_logs table
    adding,       \* per /addbot call in progress, its position
    deleting,     \* the executeDeleteBot call in progress
    dispatched,   \* per update dispatched to a bot's handler, the state of its row
    \* ---- fan-out results and notices (forwarder.go, ManagerNotifier, GroupMonitor) ----
    errors,       \* ForwardResult.Errors of the call in progress
    managerNotes, \* the NotifyManager calls made, one record per call
    returned,     \* the ForwardResults returned, with the recipients loaded
    delAudits,    \* the del_recipient audit rows GroupMonitor wrote
    \* ---- error notifier (internal/service/error_notifier.go) ----
    enClock,      \* time.Now(), in ticks
    notifiedErrs, \* ErrorNotifier.notifiedErrs: kind -> time of its last notification
    notifyLog,    \* the NotifyCriticalError calls made: kind, time, sent or held back
    \* ---- recipients table (recipient_repo.go, /addrecipient, /delrecipient) ----
    dbType,       \* the database the process is configured for
    recipientTable,  \* the recipients rows of the bot, tombstones included
    addingRecipient, \* per /addrecipient call in progress, its position
    \* ---- moderation handlers (forwarder_bot/blacklist_handler.go) ----
    approvalMessages, \* the blacklist_approval_messages rows with the prompt's text
    guestNotices, \* the decisions sent to guests
    modAudits,    \* the audit rows the callback handler wrote
    modLog,       \* the /unban commands and callbacks handled, with the answer given
    \* ---- credential vault (internal/utils: EncryptToken, DecryptToken) ----
    vault,        \* an encryption of a token and the decryptions made of it
    \* ---- the process log (zap, config log.level) ----
    logLevel,     \* the level the logger is built with
    logEntries,   \* the log entries written, each with the strings of its fields
    \* ---- guest rate gate of ForwardToRecipients (forwarder.go:137-176) ----
    gate,         \* the gate of the latest call: its position, checks made, context
    guestTokens,  \* tokens of the guest's rate_limit:guest bucket
    \* ---- the goroutines of one fan-out and their mutexes (forwarder.go:189-286) ----
    lkTasks,      \* per goroutine, its position, forward attempts and Retry's result
    lkMu,         \* the holder of mu, the mutex of the ForwardResult
    enMu,         \* the holder of ErrorNotifier.mutex
    lkCall,       \* the call: waiting in wg.Wait or returned; other notifier calls
    \* ---- process shutdown (cmd/bot/main.go:209-218) ----
    main          \* main's position in its shutdown sequence; the root context

blVars == <<now, tickerC, guests, blacklists, creating, ret>>
fwVars == <<recipients, nextId, mappings, fwd, tasks, result, updateId, apiTokens,
            forwarded, successes, dropped>>
svVars == <<bots, instances, startCalls>>
rlVars == <<config, clock, memoryStore, allowLog>>
rtVars == <<retry, ctxDone>>
mgVars == <<botRows, recipientRows, auditLogs, adding, deleting, dispatched>>
foVars == <<errors, managerNotes, returned, delAudits>>
enVars == <<enClock, notifiedErrs, notifyLog>>
rcVars == <<dbType, recipientTable, addingRecipient>>
mdVars == <<approvalMessages, guestNotices, modAudits, modLog>>
cvVars == <<vault>>
crVars == <<logLevel, logEntries>>
gtVars == <<gate, guestTokens>>
lkVars == <<lkTasks, lkMu, enMu, lkCall>>
shVars == <<main>>
wVars == <<gtVars, lkVars, shVars>>
yVars == <<enVars, rcVars, mdVars, cvVars, wVars>>
zVars == <<yVars, crVars>>
oVars == <<rlVars, rtVars, mgVars, zVars>>
xVars == <<oVars, foVars>>
vars == <<blVars, fwVars, svVars, xVars>>
\* All but the blacklist tables and the moderation handlers.
nmVars == <<fwVars, svVars, foVars, rlVars, rtVars, mgVars, enVars, rcVars, cvVars, crVars,
            wVars>>

(***************************************************************************)
(* Bounds of the model.                                                    *)
(***************************************************************************)
MaxEntries == 2     \* rows of the blacklists table
MaxUpdates == 2     \* message updates the bot receives
MaxStarts == 2      \* StartBot calls per bot
MaxAttempts == 2    \* config retry.max_attempts
RateTelegramAPI == 1  \* config rate_limit.telegram_api
MaxNow == 48        \* last hour the clock reaches
ClockStep == 24     \* hours between two observations of the clock

(***************************************************************************)
(* Program constants.                                                      *)
(***************************************************************************)
AutoApproveAfter == 24   \* blacklist_repo.go:136, hours
TickerPeriod == 1        \* blacklist/service.go:212, hours

GuestUsers == {1, 2}         \* telegram user ids of guests
ManagerUser == 10            \* telegram user id of the bot's manager
DbOutcome == {"ok", "err"}   \* a store call answers, or fails with a database error

RequestTypes == {"ban", "unban"}
Statuses == {"pending", "approved", "rejected"}

(***************************************************************************)
(* blacklist_repo.go                                                       *)
(***************************************************************************)
\* created_at has sub-second resolution: rows of one clock hour are ordered by
\* their insertion.
CreatedBefore(i, j) ==
    \/ blacklists[i].createdAt < blacklists[j].createdAt
    \/ blacklists[i].createdAt = blacklists[j].createdAt /\ i < j

\* WHERE bot_id = ? AND guest_id = ? AND deleted_at IS NULL
GetAllByBotIDAndGuestID(u) ==
    {i \in DOMAIN blacklists : blacklists[i].guest = u /\ ~blacklists[i].deleted}

\* ... ORDER BY created_at DESC, First: the set holding the id found, {} when
\* gorm.ErrRecordNotFound.
GetLatestByBotIDAndGuestID(u) ==
    {i \in GetAllByBotIDAndGuestID(u) :
        \A j \in GetAllByBotIDAndGuestID(u) : j = i \/ CreatedBefore(j, i)}

\* ApprovePendingRows without its `status = pending` condition.
ApproveAnyRows(id) ==
    [i \in DOMAIN blacklists |->
        IF i = id /\ ~blacklists[i].deleted
        THEN [blacklists[i] EXCEPT !.status = "approved", !.approvedAt = <<now>>]
        ELSE blacklists[i]]

\* UPDATE blacklists SET status = approved, approved_at = now
\* WHERE id = ? AND status = pending
ApprovePendingRows(id) ==
    [i \in DOMAIN blacklists |->
        IF i = id /\ blacklists[i].status = "pending" /\ ~blacklists[i].deleted
        THEN [blacklists[i] EXCEPT !.status = "approved", !.approvedAt = <<now>>]
        ELSE blacklists[i]]

\* UPDATE blacklists SET status = rejected WHERE id = ? AND status = pending
RejectPendingRows(id) ==
    [i \in DOMAIN blacklists |->
        IF i = id /\ blacklists[i].status = "pending" /\ ~blacklists[i].deleted
        THEN [blacklists[i] EXCEPT !.status = "rejected"]
        ELSE blacklists[i]]

\* AutoApproveExpiredRows without its `created_at < now - 24h` condition.
AutoApproveAllPendingRows ==
    [i \in DOMAIN blacklists |->
        IF blacklists[i].status = "pending" /\ ~blacklists[i].deleted
        THEN [blacklists[i] EXCEPT !.status = "approved", !.approvedAt = <<now>>]
        ELSE blacklists[i]]

\* UPDATE blacklists SET status = approved, approved_at = now
\* WHERE status = pending AND created_at < now - 24h
AutoApproveExpiredRows ==
    [i \in DOMAIN blacklists |->
        IF /\ blacklists[i].status = "pending"
           /\ blacklists[i].createdAt < now - AutoApproveAfter
           /\ ~blacklists[i].deleted
        THEN [blacklists[i] EXCEPT !.status = "approved", !.approvedAt = <<now>>]
        ELSE blacklists[i]]

(***************************************************************************)
(* blacklist/service.go                                                    *)
(***************************************************************************)
Result(val, err) == [val |-> val, err |-> err]

\* IsBlacklisted with a pending unban read as "not blacklisted".
IsBlacklistedUnbanPendingFree(u, dbGuest, dbLatest) ==
    IF dbGuest = "err" THEN Result(FALSE, TRUE)
    ELSE IF u \notin guests THEN Result(FALSE, FALSE)
    ELSE IF dbLatest = "err" THEN Result(FALSE, TRUE)
    ELSE IF GetLatestByBotIDAndGuestID(u) = {} THEN Result(FALSE, FALSE)
    ELSE LET latest == blacklists[CHOOSE i \in GetLatestByBotIDAndGuestID(u) : TRUE]
         IN  IF latest.requestType = "ban"
             THEN Result(latest.status \in {"approved", "pending"}, FALSE)
             ELSE Result(latest.status = "rejected", FALSE)

\* Service.IsBlacklisted: the value and whether an error is returned, given how
\* the two reads end.
IsBlacklisted(u, dbGuest, dbLatest) ==
    IF dbGuest = "err" THEN Result(FALSE, TRUE)
    ELSE IF u \notin guests THEN Result(FALSE, FALSE)
    ELSE IF dbLatest = "err" THEN Result(FALSE, TRUE)
    ELSE IF GetLatestByBotIDAndGuestID(u) = {} THEN Result(FALSE, FALSE)
    ELSE LET latest == blacklists[CHOOSE i \in GetLatestByBotIDAndGuestID(u) : TRUE]
         IN  IF latest.requestType = "ban"
             THEN IF latest.status = "approved" \/ latest.status = "pending"
                  THEN Result(TRUE, FALSE)
                  ELSE Result(FALSE, FALSE)
             ELSE IF latest.requestType = "unban"
             THEN IF latest.status = "rejected" \/ latest.status = "pending"
                  THEN Result(TRUE, FALSE)
                  ELSE Result(FALSE, FALSE)
             ELSE Result(FALSE, FALSE)

\* canTrigger of CreateBanRequest
CanTriggerBan(latest) ==
    IF latest.requestType = "ban"
    THEN latest.status = "pending" \/ latest.status = "rejected"
    ELSE IF latest.requestType = "unban"
    THEN latest.status = "approved"
    ELSE FALSE

\* canTrigger of CreateUnbanRequest
CanTriggerUnban(latest) ==
    IF latest.requestType = "unban"
    THEN latest.status = "rejected" \/ latest.status = "pending"
    ELSE IF latest.requestType = "ban"
    THEN latest.status = "approved"
    ELSE FALSE

\* The latest entry of the pair as {<<kind, status>>}, {} when there is none.
LatestState(u) ==
    {<<blacklists[i].requestType, blacklists[i].status>> :
        i \in GetLatestByBotIDAndGuestID(u)}

\* What a Create*Request call returned: the entry (err = FALSE) or an error.
Ret(op, u, err) == [op |-> op, guest |-> u, err |-> err]
NoRet == Ret("none", 0, FALSE)

\* Create*Request up to its insert: GetOrCreate of the guest row, the read of
\* the latest entry and the gate.  The gate runs only when the read returned a
\* row without error.
CreateRequestRead(kind, u, requestUser, dbGuest, dbLatest, canTrigger) ==
    /\ creating = <<>>
    /\ Len(blacklists) < MaxEntries
    /\ IF dbGuest = "err"
       THEN /\ ret' = Ret(kind, u, TRUE)
            /\ UNCHANGED <<guests, creating>>
       ELSE /\ guests' = guests \cup {u}
            /\ IF /\ dbLatest = "ok"
                  /\ GetLatestByBotIDAndGuestID(u) # {}
                  /\ ~canTrigger
               THEN /\ ret' = Ret(kind, u, TRUE)
                    /\ UNCHANGED creating
               ELSE /\ creating' = <<[kind |-> kind, guest |-> u,
                                      requestUser |-> requestUser]>>
                    /\ UNCHANGED ret
    /\ UNCHANGED <<now, tickerC, blacklists>>
    /\ UNCHANGED nmVars

LatestOf(u) == blacklists[CHOOSE i \in GetLatestByBotIDAndGuestID(u) : TRUE]

CreateBanRequest(u, requestUser, dbGuest, dbLatest) ==
    CreateRequestRead("ban", u, requestUser, dbGuest, dbLatest,
        GetLatestByBotIDAndGuestID(u) # {} /\ CanTriggerBan(LatestOf(u)))

CreateUnbanRequest(u, requestUser, dbGuest, dbLatest) ==
    CreateRequestRead("unban", u, requestUser, dbGuest, dbLatest,
        GetLatestByBotIDAndGuestID(u) # {} /\ CanTriggerUnban(LatestOf(u)))

\* The insert that ends Create*Request: blacklistRepo.Create of a pending row.
BlacklistCreate(dbCreate) ==
    /\ creating # <<>>
    /\ LET c == creating[1]
       IN  IF dbCreate = "ok"
           THEN /\ blacklists' = Append(blacklists,
                      [guest |-> c.guest, requestType |-> c.kind,
                       status |-> "pending", requestUser |-> c.requestUser,
                       createdAt |-> now, approvedAt |-> <<>>, deleted |-> FALSE])
                /\ ret' = Ret(c.kind, c.guest, FALSE)
           ELSE /\ ret' = Ret(c.kind, c.guest, TRUE)
                /\ UNCHANGED blacklists
    /\ creating' = <<>>
    /\ UNCHANGED <<now, tickerC, guests>>
    /\ UNCHANGED nmVars

\* Service.ApproveRequest
ApprovePending(id, db) ==
    /\ id \in DOMAIN blacklists
    /\ blacklists' = IF db = "ok" THEN ApprovePendingRows(id) ELSE blacklists
    /\ UNCHANGED <<now, tickerC, guests, creating, ret>>
    /\ UNCHANGED <<fwVars, svVars, xVars>>

\* Service.RejectRequest
RejectPending(id, db) ==
    /\ id \in DOMAIN blacklists
    /\ blacklists' = IF db = "ok" THEN RejectPendingRows(id) ELSE blacklists
    /\ UNCHANGED <<now, tickerC, guests, creating, ret>>
    /\ UNCHANGED <<fwVars, svVars, xVars>>

\* One round of StartAutoApproveWorker's loop: a tick is received and
\* AutoApproveExpired runs.
AutoApproveExpired ==
    /\ tickerC
    /\ tickerC' = FALSE
    /\ blacklists' = AutoApproveExpiredRows
    /\ UNCHANGED <<now, guests, creating, ret>>
    /\ UNCHANGED <<fwVars, svVars, xVars>>

\* The same round when the UPDATE fails: the error is logged.
AutoApproveFailed ==
    /\ tickerC
    /\ tickerC' = FALSE
    /\ UNCHANGED <<now, guests, blacklists, creating, ret>>
    /\ UNCHANGED <<fwVars, svVars, xVars>>

\* Time passes; the hourly ticker has fired since the last observation.  Past
\* MaxNow the clock is no longer observed but the ticker keeps firing.
Tick ==
    /\ now' = IF now + ClockStep <= MaxNow THEN now + ClockStep ELSE now
    /\ tickerC' = (ClockStep >= TickerPeriod)
    /\ UNCHANGED <<guests, blacklists, creating, ret>>
    /\ UNCHANGED <<fwVars, svVars, xVars>>

(***************************************************************************)
(* The bot supervisor: BotManager and the goroutine of each ForwarderBot.  *)
(***************************************************************************)
BotIDs == {1, 2}

\* The check of the map reporting a bot as absent.
ExistsNever(botID) == FALSE

\* Whether bm.bots[botID] exists.
Exists(botID) == botID \in DOMAIN bots

\* BotManager.startBot, under bm.mu from entry to return: nothing when the bot
\* is in the map; else the row is read, the instance built, stored in the map
\* and its goroutine started.
startBot(botID, dbBot, built) ==
    /\ startCalls[botID] < MaxStarts
    /\ startCalls' = [startCalls EXCEPT ![botID] = @ + 1]
    /\ IF Exists(botID) \/ dbBot = "err" \/ built = "err"
       THEN UNCHANGED <<bots, instances>>
       ELSE /\ instances' = Append(instances,
                  [bot |-> botID, pc |-> "start", polling |-> FALSE, stopped |-> FALSE])
            /\ bots' = [b \in DOMAIN bots \cup {botID} |->
                          IF b = botID THEN Len(instances) + 1 ELSE bots[b]]
    /\ UNCHANGED <<blVars, fwVars, foVars, zVars, rlVars, rtVars>>

\* The goroutine's ForwarderBot.Start up to its select: StartPolling starts the
\* long-poll loop, or fails and Start returns.
BotStartPolling(h, polled) ==
    /\ h \in DOMAIN instances
    /\ instances[h].pc = "start"
    /\ instances' = [instances EXCEPT ![h] =
                        IF polled = "ok"
                        THEN [@ EXCEPT !.pc = "wait", !.polling = TRUE]
                        ELSE [@ EXCEPT !.pc = "exit"]]
    /\ UNCHANGED <<blVars, fwVars, foVars, zVars, xVars, bots, startCalls>>

\* The goroutine's select on ctx.Done() and fb.stop: Start returns once the
\* root context is cancelled or stop is closed.
BotReturn(h) ==
    /\ h \in DOMAIN instances
    /\ instances[h].pc = "wait"
    /\ (main.ctxDone \/ instances[h].stopped)
    /\ instances' = [instances EXCEPT ![h].pc = "exit"]
    /\ UNCHANGED <<blVars, fwVars, foVars, zVars, xVars, bots, startCalls>>

\* BotManager.stopBot, under bm.mu: nothing when the bot is not in the map; else
\* ForwarderBot.Stop closes fb.stop and stops the updater's polling, and the bot
\* leaves the map.
stopBot(botID) ==
    /\ IF Exists(botID)
       THEN /\ instances' = [instances EXCEPT ![bots[botID]] =
                               [@ EXCEPT !.stopped = TRUE, !.polling = FALSE]]
            /\ bots' = [b \in DOMAIN bots \ {botID} |-> bots[b]]
       ELSE UNCHANGED <<bots, instances>>
    /\ UNCHANGED <<blVars, fwVars, foVars, zVars, rlVars, rtVars, startCalls>>

SvInit ==
    /\ bots = <<>>
    /\ instances = <<>>
    /\ startCalls = [b \in BotIDs |-> 0]

SvNext ==
    \/ \E b \in BotIDs, db \in DbOutcome, built \in DbOutcome :
          startBot(b, db, built) /\ UNCHANGED mgVars
    \/ \E h \in DOMAIN instances, polled \in DbOutcome : BotStartPolling(h, polled)
    \/ \E h \in DOMAIN instances : BotReturn(h)
    \/ \E b \in BotIDs : stopBot(b) /\ UNCHANGED mgVars

(***************************************************************************)
(* The state of the rate limiter, of the retry executor and of the manager *)
(* control surface before any call.                                        *)
(***************************************************************************)
RateGuestMessage == 1   \* config rate_limit.guest_message

\* The rate-limit keys: the global-API key and one key per (bot, guest).
Keys == {"telegram_api", "guest:1:1", "guest:2:1"}

RlIdle ==
    /\ config = [TelegramAPI |-> RateTelegramAPI, GuestMessage |-> RateGuestMessage]
    /\ clock = 0
    /\ memoryStore = <<>>
    /\ allowLog = [k \in Keys |-> <<>>]

NoRetry == [pc |-> "idle", i |-> 0, calls |-> <<>>, waits |-> 0, ret |-> "none"]

RtIdle ==
    /\ retry = NoRetry
    /\ ctxDone = FALSE

\* The /addbot updates the manager bot's dispatcher handles concurrently.
AddCalls == {1, 2}

NoAdd == [pc |-> "idle", token |-> "", bot |-> 0, ret |-> "none"]

MgIdle ==
    /\ botRows = <<>>
    /\ recipientRows = {}
    /\ auditLogs = <<>>
    /\ adding = [c \in AddCalls |-> NoAdd]
    /\ deleting = <<>>
    /\ dispatched = {}

FoIdle ==
    /\ errors = <<>>
    /\ managerNotes = <<>>
    /\ returned = <<>>
    /\ delAudits = <<>>

EnIdle ==
    /\ enClock = 0
    /\ notifiedErrs = <<>>
    /\ notifyLog = <<>>

RcIdle ==
    /\ dbType = "postgres"
    /\ recipientTable = <<>>
    /\ addingRecipient = [c \in AddCalls |-> [pc |-> "idle", chat |-> 0]]

MdIdle ==
    /\ approvalMessages = {}
    /\ guestNotices = <<>>
    /\ modAudits = <<>>
    /\ modLog = <<>>

NoVault == [pc |-> "idle", token |-> "", key |-> "", encrypted |-> <<>>,
            decrypted |-> <<>>]

CvIdle == vault = NoVault

\* viper.SetDefault("log.level", "debug")
CrIdle ==
    /\ logLevel = "debug"
    /\ logEntries = {}

NoGate == [pc |-> "idle", chat |-> 0, msg |-> 0, checks |-> 0, allowed |-> TRUE,
           waited |-> FALSE, ctxDone |-> FALSE]

GtIdle ==
    /\ gate = NoGate
    /\ guestTokens = RateGuestMessage

\* No fan-out is under way: its goroutines are at their start.
LkIdle ==
    /\ lkTasks = [r \in {10, 20} |-> [pc |-> "start", attempts |-> 0, err |-> "ok"]]
    /\ lkMu = 0
    /\ enMu = 0
    /\ lkCall = [pc |-> "none", others |-> 0]

\* main before the interrupt signal: the bots are served, the root context live.
ShIdle == main = [pc |-> "serving", ctxDone |-> FALSE, botCount |-> 0]

WIdle == GtIdle /\ LkIdle /\ ShIdle

XIdle ==
    /\ RlIdle /\ RtIdle /\ MgIdle /\ FoIdle /\ EnIdle /\ RcIdle /\ MdIdle /\ CvIdle /\ CrIdle
    /\ WIdle

(***************************************************************************)
(* The fan-out pipeline, the mapping store and the reply resolver.         *)
(***************************************************************************)
Chats == {1, 2, 10, 20}
\* Who writes to the bot: two guests in their private chats, who also reply
\* there; the manager and a member of the recipient group, who reply.
Guests == {[chat |-> 1, user |-> 1], [chat |-> 2, user |-> 2]}
Senders == Guests \cup {[chat |-> 10, user |-> ManagerUser], [chat |-> 20, user |-> 30]}
\* The messages of a chat a reply can point to; a chat holds messages the bot
\* never handled.
ReplyTargets == {<<1>>, <<2>>}
InitRecipients ==
    {[chat |-> 10, type |-> "user"], [chat |-> 20, type |-> "group"]}
\* How a call to the platform ends: success, a server error, a refusal.
ApiOutcome == {"ok", "500", "403"}

\* Every error taken for retryable.
isRetryableAlways(err) == TRUE

\* RetryHandler.isRetryableError: a net.Error that is a timeout or temporary, or
\* an error whose text holds 429, 500, 502, 503 or 504.
isRetryableError(err) ==
    \/ err \in {"timeout", "temporary"}
    \/ err \in {"429", "Too Many Requests", "500", "502", "503", "504"}

\* The last error returned as it is.
WrapNone(err) == err

\* fmt.Errorf("max retries exceeded: %w", lastErr)
Wrap(err) == "max retries exceeded: " \o err

\* RetryHandler.Retry over the outcomes outs[1], outs[2], ... of fn: the number
\* of calls it makes.
RetryCalls(outs) ==
    CHOOSE k \in 1..MaxAttempts :
        /\ \A j \in 1..(k - 1) : outs[j] # "ok" /\ isRetryableError(outs[j])
        /\ k = MaxAttempts \/ outs[k] = "ok" \/ ~isRetryableError(outs[k])

\* Retry returning nil whatever fn returned.
RetryNil(outs) == "ok"

\* ... and what it returns: "ok" for nil, the error that is not retryable, or
\* the last error wrapped once the attempts are used up.
Retry(outs) ==
    LET last == outs[RetryCalls(outs)]
    IN  IF last = "ok" \/ ~isRetryableError(last) THEN last ELSE Wrap(last)

\* The runs of the outcomes of fn a Retry can see: nothing follows the call it
\* stops at.
RetryRuns ==
    {outs \in [1..MaxAttempts -> ApiOutcome] :
        \A j \in 1..MaxAttempts : j > RetryCalls(outs) => outs[j] = "ok"}

\* The copies one Retry(ForwardMessage(to, from, msg)) makes: message msg of chat
\* from, whose reply_to_message is re, arrives in chat to as message newId.
ForwardCalls(outs, to, from, msg, re, newId) ==
    {[to |-> to, from |-> from, msg |-> msg, re |-> re, res |-> newId] :
        j \in {j \in 1..RetryCalls(outs) : outs[j] = "ok"}}

\* The bucket always answering yes.
AllowAlways == TRUE

\* RateLimiter.allowWithMemory on the telegram_api bucket
AllowTelegramAPI == apiTokens >= 1

Mapping(gc, gm, rc, rm, dir) ==
    [guestChat |-> gc, guestMsg |-> gm, recipChat |-> rc, recipMsg |-> rm,
     direction |-> dir]

\* GetByRecipientMessage without its `recipient_chat_id = ?` condition.
GetByMessageIdOnly(rc, rm) ==
    {i \in DOMAIN mappings : mappings[i].recipMsg = rm}

\* messageMappingRepository.GetByRecipientMessage: the rows First may return.
GetByRecipientMessage(rc, rm) ==
    {i \in DOMAIN mappings :
        mappings[i].recipChat = rc /\ mappings[i].recipMsg = rm}

\* GroupMonitor.CheckRecipient: the recipients left after it.
CheckRecipient(rec, getChat, dbDelete) ==
    IF rec.type # "group" THEN recipients
    ELSE IF getChat \in {"400", "403"} /\ dbDelete = "ok" THEN recipients \ {rec}
    ELSE recipients

\* Forwarder.ForwardToRecipients up to the start of its goroutines.
ForwardToRecipients(chat, msg) ==
    \E dbRecipients \in DbOutcome :
        IF dbRecipients = "err" \/ recipients = {}
        THEN UNCHANGED <<guests, fwd, tasks, result>>
        ELSE \E dbGuest \in DbOutcome :
               IF dbGuest = "err"
               THEN UNCHANGED <<guests, fwd, tasks, result>>
               ELSE /\ guests' = guests \cup {chat}
                    /\ fwd' = <<[chat |-> chat, msg |-> msg]>>
                    /\ tasks' = [r \in recipients |->
                                    [pc |-> "start", err |-> "ok", newId |-> 0]]
                    /\ result' = [success |-> 0, failure |-> 0]

\* Service.HandleMessage on a message that is not a reply: the blacklist check,
\* then the fan-out.  A failed check is logged and the message goes on.
HandleText(m) ==
    /\ fwd = <<>>
    /\ updateId < MaxUpdates
    /\ updateId' = updateId + 1
    /\ nextId' = [nextId EXCEPT ![m.chat] = @ + 1]
    /\ \E dbGuest \in DbOutcome, dbLatest \in DbOutcome :
         LET isBlacklisted == IsBlacklisted(m.user, dbGuest, dbLatest)
             msg == nextId[m.chat]
         IN  IF ~isBlacklisted.err /\ isBlacklisted.val
             THEN /\ dropped' = dropped \cup {[chat |-> m.chat, msg |-> msg]}
                  /\ UNCHANGED <<guests, fwd, tasks, result>>
             ELSE /\ ForwardToRecipients(m.chat, msg)
                  /\ UNCHANGED dropped
    /\ UNCHANGED <<now, tickerC, blacklists, creating, ret>>
    /\ UNCHANGED <<recipients, mappings, apiTokens, forwarded, successes>>
    /\ UNCHANGED <<svVars, xVars>>

\* A recipient's goroutine from its rate-limit check to the end of its Retry;
\* when the forward failed, on through its section under mu: the failure is
\* counted and the recipient checked.
TaskForward(r) ==
    /\ fwd # <<>>
    /\ r \in DOMAIN tasks
    /\ tasks[r].pc = "start"
    /\ IF ~AllowTelegramAPI
       THEN /\ result' = [result EXCEPT !.failure = @ + 1]
            /\ tasks' = [tasks EXCEPT ![r] = [pc |-> "done", err |-> "rate limit exceeded",
                                             newId |-> 0]]
            /\ UNCHANGED <<recipients, nextId, apiTokens, forwarded>>
       ELSE \E outs \in RetryRuns :
            /\ apiTokens' = apiTokens - 1
            /\ forwarded' = forwarded \cup
                  ForwardCalls(outs, r.chat, fwd[1].chat, fwd[1].msg, <<>>, nextId[r.chat])
            /\ IF Retry(outs) = "ok"
               THEN /\ nextId' = [nextId EXCEPT ![r.chat] = @ + 1]
                    /\ tasks' = [tasks EXCEPT ![r] = [pc |-> "map", err |-> "ok",
                                                     newId |-> nextId[r.chat]]]
                    /\ UNCHANGED <<recipients, result>>
               ELSE /\ tasks' = [tasks EXCEPT ![r] = [pc |-> "done", err |-> Retry(outs),
                                                     newId |-> 0]]
                    /\ result' = [result EXCEPT !.failure = @ + 1]
                    /\ \E getChat \in ApiOutcome, dbDelete \in DbOutcome :
                          recipients' = CheckRecipient(r, getChat, dbDelete)
                    /\ UNCHANGED nextId
    /\ UNCHANGED <<blVars, svVars, oVars>>
    /\ UNCHANGED <<mappings, fwd, updateId, successes, dropped>>

\* The end of forwardMessage and of the goroutine: the inbound mapping is
\* inserted, a failed insert is logged, forwardMessage returns nil all the same
\* and the forward is counted as a success.
TaskCreateMapping(r) ==
    /\ fwd # <<>>
    /\ r \in DOMAIN tasks
    /\ tasks[r].pc = "map"
    /\ \E dbCreate \in DbOutcome :
          mappings' = IF dbCreate = "ok"
                      THEN Append(mappings, Mapping(fwd[1].chat, fwd[1].msg, r.chat,
                                                    tasks[r].newId, "inbound"))
                      ELSE mappings
    /\ result' = [result EXCEPT !.success = @ + 1]
    /\ successes' = successes \cup
          {Mapping(fwd[1].chat, fwd[1].msg, r.chat, tasks[r].newId, "inbound")}
    /\ tasks' = [tasks EXCEPT ![r].pc = "done"]
    /\ UNCHANGED <<blVars, svVars, xVars>>
    /\ UNCHANGED <<recipients, nextId, fwd, updateId, apiTokens, forwarded, dropped>>

\* wg.Wait returns: ForwardToRecipients and HandleMessage return, and the
\* ForwardResult is gone with them.
ForwardDone ==
    /\ fwd # <<>>
    /\ \A r \in DOMAIN tasks : tasks[r].pc = "done"
    /\ fwd' = <<>>
    /\ tasks' = <<>>
    /\ result' = [success |-> 0, failure |-> 0]
    /\ UNCHANGED <<blVars, svVars, oVars>>
    /\ UNCHANGED <<recipients, nextId, mappings, updateId, apiTokens, forwarded,
                   successes, dropped>>

\* Forwarder.ForwardReplyToGuest on message msg of chat, whose reply_to_message
\* is replyTo (<<>> when it is not a reply); ids is nextId once msg is counted.
ForwardReplyToGuest(chat, msg, replyTo, ids) ==
    IF replyTo = <<>>
    THEN /\ nextId' = ids
         /\ UNCHANGED <<mappings, apiTokens, forwarded, successes>>
    ELSE \E dbMapping \in DbOutcome :
         IF dbMapping = "err" \/ GetByRecipientMessage(chat, replyTo[1]) = {}
            \/ ~AllowTelegramAPI
         THEN /\ nextId' = ids
              /\ UNCHANGED <<mappings, apiTokens, forwarded, successes>>
         ELSE \E i \in GetByRecipientMessage(chat, replyTo[1]), outs \in RetryRuns :
              LET mapping == mappings[i]
                  replyMapping == Mapping(mapping.guestChat, mapping.guestMsg, chat, msg,
                                          "outbound")
              IN  /\ apiTokens' = apiTokens - 1
                  /\ forwarded' = forwarded \cup
                        ForwardCalls(outs, mapping.guestChat, chat, msg, replyTo,
                                     ids[mapping.guestChat])
                  /\ IF Retry(outs) = "ok"
                     THEN /\ nextId' = [ids EXCEPT ![mapping.guestChat] = @ + 1]
                          /\ \E dbCreate \in DbOutcome :
                                mappings' = IF dbCreate = "ok"
                                            THEN Append(mappings, replyMapping)
                                            ELSE mappings
                          /\ successes' = successes \cup {replyMapping}
                     ELSE /\ nextId' = ids
                          /\ UNCHANGED <<mappings, successes>>

\* Service.HandleReply: a reply from a chat that is no recipient is ignored.
HandleReply(m, replyTo) ==
    /\ updateId < MaxUpdates
    /\ updateId' = updateId + 1
    /\ \E dbRecipient \in DbOutcome :
         LET ids == [nextId EXCEPT ![m.chat] = @ + 1]
         IN  IF dbRecipient = "err" \/ m.chat \notin {r.chat : r \in recipients}
             THEN /\ nextId' = ids
                  /\ UNCHANGED <<mappings, apiTokens, forwarded, successes>>
             ELSE ForwardReplyToGuest(m.chat, nextId[m.chat], replyTo, ids)
    /\ UNCHANGED <<blVars, svVars, xVars>>
    /\ UNCHANGED <<recipients, fwd, tasks, result, dropped>>

\* Service.HandleMessage: a reply goes to HandleReply, anything else through the
\* blacklist check to the fan-out.  replyTo is <<>> or the id replied to.
HandleMessage(m, replyTo) ==
    IF replyTo # <<>> THEN HandleReply(m, replyTo) ELSE HandleText(m)

\* ForwardReplyToGuest called on a message that is not a reply.
ForwardPlainAsReply(m) ==
    /\ updateId < MaxUpdates
    /\ updateId' = updateId + 1
    /\ ForwardReplyToGuest(m.chat, nextId[m.chat], <<>>,
                           [nextId EXCEPT ![m.chat] = @ + 1])
    /\ UNCHANGED <<blVars, svVars, xVars>>
    /\ UNCHANGED <<recipients, fwd, tasks, result, dropped>>

\* A second passes: the telegram_api bucket gains tokens up to its capacity.
Refill ==
    /\ apiTokens < RateTelegramAPI
    /\ apiTokens' = apiTokens + 1
    /\ UNCHANGED <<blVars, svVars, xVars>>
    /\ UNCHANGED <<recipients, nextId, mappings, fwd, tasks, result, updateId,
                   forwarded, successes, dropped>>

FwInit ==
    /\ recipients = InitRecipients
    /\ nextId = [c \in Chats |-> 1]
    /\ mappings = <<>>
    /\ fwd = <<>>
    /\ tasks = <<>>
    /\ result = [success |-> 0, failure |-> 0]
    /\ updateId = 0
    /\ apiTokens = RateTelegramAPI
    /\ forwarded = {}
    /\ successes = {}
    /\ dropped = {}

Entry(u, kind, status) ==
    [guest |-> u, requestType |-> kind, status |-> status, requestUser |-> ManagerUser,
     createdAt |-> 0, approvedAt |-> IF status = "approved" THEN <<0>> ELSE <<>>,
     deleted |-> FALSE]

\* The blacklist histories of guest 1 the pipeline is run against.
Histories ==
    {<<Entry(1, "ban", "pending")>>,
     <<Entry(1, "ban", "rejected")>>,
     <<Entry(1, "ban", "approved"), Entry(1, "unban", "pending")>>,
     <<Entry(1, "ban", "approved"), Entry(1, "unban", "approved")>>}

FwStart ==
    /\ now = 0
    /\ tickerC = FALSE
    /\ blacklists \in Histories
    /\ guests = {blacklists[i].guest : i \in DOMAIN blacklists}
    /\ creating = <<>>
    /\ ret = NoRet
    /\ FwInit
    /\ SvInit
    /\ XIdle

FwNext ==
    \/ \E m \in Guests : HandleMessage(m, <<>>)
    \/ \E m \in Senders, replyTo \in ReplyTargets : HandleMessage(m, replyTo)
    \/ \E r \in DOMAIN tasks : TaskForward(r) /\ UNCHANGED foVars
    \/ \E r \in DOMAIN tasks : TaskCreateMapping(r)
    \/ ForwardDone /\ UNCHANGED foVars
    \/ \E m \in Senders : ForwardPlainAsReply(m)
    \/ Refill

SpecForward == FwStart /\ [][FwNext]_vars

BlIdle ==
    /\ now = 0
    /\ tickerC = FALSE
    /\ guests = {}
    /\ blacklists = <<>>
    /\ creating = <<>>
    /\ ret = NoRet

BlInit == BlIdle /\ FwInit /\ SvInit /\ XIdle

BlNext ==
    \/ \E u \in GuestUsers, dg \in DbOutcome, dl \in DbOutcome :
          CreateBanRequest(u, ManagerUser, dg, dl) /\ UNCHANGED mdVars
    \/ \E u \in GuestUsers, dg \in DbOutcome, dl \in DbOutcome :
          CreateUnbanRequest(u, ManagerUser, dg, dl) /\ UNCHANGED mdVars
    \/ \E db \in DbOutcome : BlacklistCreate(db) /\ UNCHANGED mdVars
    \/ \E id \in DOMAIN blacklists, db \in DbOutcome : ApprovePending(id, db)
    \/ \E id \in DOMAIN blacklists, db \in DbOutcome : RejectPending(id, db)
    \/ AutoApproveExpired
    \/ AutoApproveFailed
    \/ Tick

SpecBlacklist == BlInit /\ [][BlNext]_vars

\* The ticker keeps firing, and the worker's UPDATE does not fail forever.
SpecBlacklistFair ==
    SpecBlacklist /\ WF_vars(Tick) /\ SF_vars(AutoApproveExpired)

(***************************************************************************)
(* Properties of the blacklist engine.                                     *)
(***************************************************************************)
\* The entries of the pair that are not deleted, written from the table alone.
EntriesOf(u) ==
    {i \in 1..Len(blacklists) : blacklists[i].guest = u /\ ~blacklists[i].deleted}

\* The most recent of them: no other entry of the pair was created after it.
IsMostRecent(u, i) ==
    /\ i \in EntriesOf(u)
    /\ \A j \in EntriesOf(u) :
          \/ blacklists[j].createdAt < blacklists[i].createdAt
          \/ blacklists[j].createdAt = blacklists[i].createdAt /\ j <= i

BlacklistingStates ==
    {<<"ban", "approved">>, <<"ban", "pending">>,
     <<"unban", "pending">>, <<"unban", "rejected">>}

ExpectedBlacklisted(u) ==
    \E i \in EntriesOf(u) :
        /\ IsMostRecent(u, i)
        /\ <<blacklists[i].requestType, blacklists[i].status>> \in BlacklistingStates

\* C1: at every point in time IsBlacklisted(bot, guest), when its reads succeed,
\* is the function of the most recent non-deleted entry of the pair: true for
\* {ban, approved}, {ban, pending}, {unban, pending}, {unban, rejected}; false
\* for {ban, rejected}, {unban, approved} and when the pair has no entry.
C1_LatestEntryDecides ==
    \A u \in GuestUsers :
        IsBlacklisted(u, "ok", "ok") = Result(ExpectedBlacklisted(u), FALSE)

\* C1 witness: a guest with an approved ban followed by a pending unban is
\* reported blacklisted, and a guest whose only ban was rejected is not.
C1_Witness ==
    /\ Len(blacklists) = 2
    /\ blacklists[1].guest = blacklists[2].guest
    /\ <<blacklists[1].requestType, blacklists[1].status>> = <<"ban", "approved">>
    /\ <<blacklists[2].requestType, blacklists[2].status>> = <<"unban", "pending">>
    /\ IsBlacklisted(blacklists[2].guest, "ok", "ok").val

\* The entry a step inserts for guest u, if it inserts one of this kind.
Inserted(kind, u) ==
    /\ Len(blacklists') = Len(blacklists) + 1
    /\ blacklists'[Len(blacklists')].guest = u
    /\ blacklists'[Len(blacklists')].requestType = kind

BanAdmitted == {<<"ban", "pending">>, <<"ban", "rejected">>, <<"unban", "approved">>}
BanRefused == {<<"ban", "approved">>, <<"unban", "pending">>, <<"unban", "rejected">>}
UnbanAdmitted == {<<"ban", "approved">>, <<"unban", "pending">>, <<"unban", "rejected">>}

\* C6: a pending ban entry is inserted only when the guest has no entry or the
\* latest entry is {ban, pending}, {ban, rejected} or {unban, approved}; a
\* CreateBanRequest call that finds any other latest state returns an error and
\* goes on to no insert.
C6_BanGate ==
    [][\A u \in GuestUsers :
         /\ Inserted("ban", u) => LatestState(u) \subseteq BanAdmitted
         /\ \A dg \in DbOutcome, dl \in DbOutcome :
              (CreateBanRequest(u, ManagerUser, dg, dl)
                 /\ LatestState(u) \cap BanRefused # {})
              => (creating' = <<>> /\ ret' = Ret("ban", u, TRUE))]_vars

\* C7: a pending unban entry is inserted only when the latest entry is
\* {ban, approved}, {unban, pending} or {unban, rejected}; a CreateUnbanRequest
\* call in any other case, a guest without entry included, returns an error and
\* goes on to no insert.
C7_UnbanGate ==
    [][\A u \in GuestUsers :
         /\ Inserted("unban", u)
              => (LatestState(u) # {} /\ LatestState(u) \subseteq UnbanAdmitted)
         /\ \A dg \in DbOutcome, dl \in DbOutcome :
              (CreateUnbanRequest(u, ManagerUser, dg, dl)
                 /\ LatestState(u) \cap UnbanAdmitted = {})
              => (creating' = <<>> /\ ret' = Ret("unban", u, TRUE))]_vars

\* A row keeps everything but, possibly, its status and approved_at.
SameRequest(a, b) ==
    [a EXCEPT !.status = b.status, !.approvedAt = b.approvedAt] = b

\* C8: the status of an entry only ever goes from pending to approved or from
\* pending to rejected, an approved or rejected entry never changes again under
\* any interleaving of approve, reject and auto-approve, and approved_at is set
\* exactly when the status is approved.
C8_StatusMonotone ==
    /\ [](\A i \in DOMAIN blacklists :
             (blacklists[i].approvedAt # <<>>) <=> (blacklists[i].status = "approved"))
    /\ [][\A i \in DOMAIN blacklists :
             /\ i \in DOMAIN blacklists'
             /\ SameRequest(blacklists[i], blacklists'[i])
             /\ blacklists'[i] # blacklists[i]
                  => /\ blacklists[i].status = "pending"
                     /\ blacklists'[i].status \in {"approved", "rejected"}]_vars

\* C8 witness: one entry was approved and another rejected, and both were then
\* the target of further approve and reject calls (every row is, at any time).
C8_Witness ==
    /\ Len(blacklists) = 2
    /\ blacklists[1].status = "rejected"
    /\ blacklists[2].status = "approved"
    /\ blacklists[2].approvedAt = <<now>>
    /\ now > blacklists[2].createdAt

Expired(i) ==
    /\ i \in DOMAIN blacklists
    /\ blacklists[i].status = "pending"
    /\ blacklists[i].createdAt + AutoApproveAfter < now

\* C9: an entry still pending more than 24 hours after its creation eventually
\* leaves pending, the hourly worker approving it (approved_at set) when no
\* reviewer acts; and a round of the worker changes no entry that is not
\* pending or that was created less than 24 hours ago.
C9_AutoApprove ==
    /\ \A i \in 1..MaxEntries : [](Expired(i) => <>(~Expired(i)))
    /\ [][AutoApproveExpired =>
            \A i \in DOMAIN blacklists :
                IF Expired(i)
                THEN blacklists'[i] = [blacklists[i] EXCEPT !.status = "approved",
                                                            !.approvedAt = <<now>>]
                ELSE blacklists'[i] = blacklists[i]]_vars

\* C9 witness: an entry created at hour 0 was approved by the worker at hour 48
\* while a younger pending entry was left alone.
C9_Witness ==
    /\ Len(blacklists) = 2
    /\ blacklists[1].status = "approved"
    /\ blacklists[1].approvedAt # <<>>
    /\ blacklists[1].approvedAt[1] > blacklists[1].createdAt + AutoApproveAfter
    /\ blacklists[2].status = "pending"
    /\ blacklists[2].createdAt + AutoApproveAfter >= now
    /\ ~tickerC

\* C34: in the state an entry becomes approved in, by a reviewer or by the
\* auto-approve worker, IsBlacklisted of its guest is the entry's kind: true
\* for a ban, false for an unban, whatever other entries the guest has.
C34_ApprovedKindIsState ==
    [][\A i \in DOMAIN blacklists :
          (blacklists[i].status = "pending" /\ blacklists'[i].status = "approved") =>
             IsBlacklisted(blacklists[i].guest, "ok", "ok")'
                = Result(blacklists[i].requestType = "ban", FALSE)]_vars

\* The other Service.IsBlacklisted of the source: it reads all entries of the
\* guest and compares the latest approved unban with the latest ban that is
\* approved or pending.  Rows are taken never to share a created_at: of two
\* rows the one inserted later is the later one.
IsBlacklistedScanAll(u, dbGuest, dbAll) ==
    IF dbGuest = "err" THEN Result(FALSE, TRUE)
    ELSE IF u \notin guests THEN Result(FALSE, FALSE)
    ELSE IF dbAll = "err" THEN Result(FALSE, TRUE)
    ELSE LET allBlacklists == GetAllByBotIDAndGuestID(u)
             approvedUnbans == {i \in allBlacklists :
                                   /\ blacklists[i].requestType = "unban"
                                   /\ blacklists[i].status = "approved"}
             activeBans == {i \in allBlacklists :
                               /\ blacklists[i].requestType = "ban"
                               /\ blacklists[i].status \in {"approved", "pending"}}
         IN  IF allBlacklists = {} THEN Result(FALSE, FALSE)
             ELSE IF \E i \in approvedUnbans : \A j \in activeBans : CreatedBefore(j, i)
             THEN Result(FALSE, FALSE)
             ELSE Result(activeBans # {}, FALSE)

\* C35: on every history of entries the gate and the approve, reject and
\* auto-approve transitions lead to, the scan-all IsBlacklisted and the
\* latest-entry IsBlacklisted answer alike for every guest.
C35_ScanAllEqualsLatest ==
    \A u \in GuestUsers :
        IsBlacklistedScanAll(u, "ok", "ok") = IsBlacklisted(u, "ok", "ok")

(***************************************************************************)
(* Properties of the fan-out pipeline and the reply resolver.              *)
(***************************************************************************)
RowsOf(gc, gm) ==
    {i \in 1..Len(mappings) : mappings[i].guestChat = gc /\ mappings[i].guestMsg = gm}

CopiesOf(chat, msg) == {c \in forwarded : c.from = chat /\ c.msg = msg}

\* C2: whenever the guest is blacklisted by §4.8 at the time their message is
\* handled (a ban pending review included), the message is forwarded to no
\* recipient and no mapping row is written for it, then or later.
C2_BlacklistedDropped ==
    /\ [][\A m \in Guests :
            (ExpectedBlacklisted(m.user) /\ HandleMessage(m, <<>>))
            => fwd' = <<>> /\ forwarded' = forwarded /\ mappings' = mappings]_vars
    /\ [](\A d \in dropped : CopiesOf(d.chat, d.msg) = {} /\ RowsOf(d.chat, d.msg) = {})

\* C3: every forward counted as successful has exactly one inbound mapping row
\* (guest_chat, guest_msg, recipient_chat, recipient_msg), and every reply
\* forwarded to a guest exactly one outbound row.
C3_SuccessHasMapping ==
    \A ok \in successes :
        Cardinality({i \in 1..Len(mappings) : mappings[i] = ok}) = 1

\* The copy the platform made that a mapping row records.
CopyOf(row) ==
    IF row.direction = "inbound"
    THEN {c \in forwarded : /\ c.from = row.guestChat /\ c.msg = row.guestMsg
                            /\ c.to = row.recipChat /\ c.res = row.recipMsg}
    ELSE {c \in forwarded : /\ c.from = row.recipChat /\ c.msg = row.recipMsg
                            /\ c.to = row.guestChat}

\* C4: a mapping row is written only after the platform's forward call for that
\* (message, recipient) returned success: each row records a copy the platform
\* made, and a forward that failed, was refused by the rate limiter or has not
\* been attempted has no row.
C4_MappingAfterSuccess ==
    /\ \A i \in 1..Len(mappings) : CopyOf(mappings[i]) # {}
    /\ \A r \in DOMAIN tasks :
          (tasks[r].pc = "start" \/ tasks[r].err # "ok")
          => {i \in RowsOf(fwd[1].chat, fwd[1].msg) : mappings[i].recipChat = r.chat} = {}

\* C4 witness: one recipient's forward was refused by the rate limiter and has
\* no row while the other's succeeded and has its row.
C4_Witness ==
    \E r1 \in DOMAIN tasks, r2 \in DOMAIN tasks :
        /\ tasks[r1].err = "rate limit exceeded"
        /\ tasks[r2].pc = "done" /\ tasks[r2].err = "ok"
        /\ \E i \in RowsOf(fwd[1].chat, fwd[1].msg) :
              mappings[i] = Mapping(fwd[1].chat, fwd[1].msg, r2.chat, tasks[r2].newId,
                                    "inbound")

\* The rows of the pre-state a reply in chat rc to message rm points to.
Resolves(rc, rm) ==
    {i \in 1..Len(mappings) : mappings[i].recipChat = rc /\ mappings[i].recipMsg = rm}

\* C5: a recipient's reply is forwarded only to the guest chat of a mapping row
\* found for (recipient chat, replied-to message id); when the message is not a
\* reply, or no such row exists (the inbound row not yet written included),
\* nothing is forwarded and no row is written.
C5_ReplyResolver ==
    [][/\ \A c \in forwarded' \ forwarded :
            c.re # <<>> => \E i \in Resolves(c.from, c.re[1]) : mappings[i].guestChat = c.to
       /\ \A m \in Senders, replyTo \in ReplyTargets :
            (Resolves(m.chat, replyTo[1]) = {} /\ HandleMessage(m, replyTo))
            => forwarded' = forwarded /\ mappings' = mappings
       /\ \A m \in Senders :
            ForwardPlainAsReply(m) => forwarded' = forwarded /\ mappings' = mappings]_vars

\* C5 witness: a reply was forwarded to a guest and recorded, and a reply to a
\* copy whose inbound row is not yet written has been handled.
C5_Witness ==
    /\ \E c \in forwarded, i \in 1..Len(mappings) :
          /\ c.re # <<>>
          /\ mappings[i] = Mapping(c.to, mappings[i].guestMsg, c.from, c.msg, "outbound")
    /\ \E r \in DOMAIN tasks : tasks[r].pc = "map" /\ updateId = MaxUpdates

SvStart == BlIdle /\ FwInit /\ SvInit /\ XIdle

SpecSupervisor == SvStart /\ [][SvNext]_vars

(***************************************************************************)
(* Properties of the bot supervisor.                                       *)
(***************************************************************************)
InstancesOf(b) == {h \in 1..Len(instances) : instances[h].bot = b}

NeverStopped(b) == \A h \in InstancesOf(b) : ~instances[h].stopped

\* C10: under any sequence or interleaving of start(bot_id) calls (no stop of
\* that bot), the map holds at most one instance for the bot id and at most one
\* long-poll loop exists for it, and a start of a bot already in the map changes
\* neither the map nor any instance.
C10_StartIdempotent ==
    /\ [](\A b \in BotIDs :
             NeverStopped(b) =>
                /\ Cardinality(InstancesOf(b)) <= 1
                /\ Cardinality({h \in InstancesOf(b) : instances[h].polling}) <= 1
                /\ (b \in DOMAIN bots => InstancesOf(b) = {bots[b]}))
    /\ [][\A b \in BotIDs :
             (/\ b \in DOMAIN bots
              /\ \E db \in DbOutcome, built \in DbOutcome : startBot(b, db, built))
             => bots' = bots /\ instances' = instances]_vars

\* C10 witness: a bot never stopped was started MaxStarts times and has one
\* instance, in the map, with its long-poll loop running.
C10_Witness ==
    \E b \in BotIDs :
        /\ startCalls[b] = MaxStarts
        /\ NeverStopped(b)
        /\ b \in DOMAIN bots
        /\ instances[bots[b]].polling
        /\ Cardinality(InstancesOf(b)) = 1


\* C11: once stop(bot_id) has returned for a running bot, the instance it
\* stopped has no long-poll loop and is not in the map, however the stop
\* interleaves with the goroutine that starts the loop; and a stop of a bot that
\* is not in the map changes neither the map nor any instance.
C11_StopStopsLoop ==
    /\ [](\A h \in DOMAIN instances :
             instances[h].stopped =>
                /\ ~instances[h].polling
                /\ \A b \in DOMAIN bots : bots[b] # h)
    /\ [][\A b \in BotIDs :
             (b \notin DOMAIN bots /\ stopBot(b))
             => bots' = bots /\ instances' = instances]_vars

\* C12: every bot in the map (start returned success for it and no stop was
\* called since) has its long-poll loop polling.
C12_StartedIsPolling ==
    \A b \in DOMAIN bots : instances[bots[b]].polling

\* The receive on ctx.Done() in StartPeriodicCheck: startBot hands the sweep a
\* fresh context.Background(), which nothing cancels.
MonitorCtxDone(h) == FALSE

\* The StartPeriodicCheck goroutines running for a bot: startBot starts one for
\* each instance it builds, and each loops until its context is done.
PeriodicChecks(botID) == {h \in InstancesOf(botID) : ~MonitorCtxDone(h)}

\* C38: at most one periodic health sweep runs per bot, and none runs for a bot
\* that is not in the supervisor's map (stopped or deleted); starting and
\* stopping the same bot again does not add sweeps.
C38_OneSweepWhileRunning ==
    \A b \in BotIDs :
        /\ Cardinality(PeriodicChecks(b)) <= 1
        /\ (b \notin DOMAIN bots => PeriodicChecks(b) = {})

(***************************************************************************)
(* The manager control surface: /addbot and the confirmed deletion of a    *)
(* bot, with the supervisor they drive.                                    *)
(***************************************************************************)
\* The credentials /addbot is called with.
Tokens == {"t1", "t2"}

\* The 32-byte keys a process can be configured with.
EncryptionKeys == {"k1", "k2", "k3"}

\* s.encryptionKey: the key of this process.
EncryptionKey == "k1"

\* The 96-bit nonces rand.Reader can yield.
Nonces == {1, 2, 3}

\* gcm.NonceSize(), in nonces.
NonceSize == 1

\* gcm.Seal(nonce, nonce, plaintext, nil): the nonce followed by the ciphertext
\* with its tag, which binds the key, the nonce and the plaintext.
Seal(key, nonce, plaintext) ==
    <<nonce, [key |-> key, nonce |-> nonce, plaintext |-> plaintext]>>

\* An Open that authenticates under any key.
OpenAnyKey(key, nonce, ciphertext) ==
    IF Len(ciphertext) = 1 /\ ciphertext[1].nonce = nonce
    THEN [val |-> ciphertext[1].plaintext, err |-> "ok"]
    ELSE [val |-> "", err |-> "message authentication failed"]

\* gcm.Open(nil, nonce, ciphertext, nil): the plaintext when the tag verifies
\* under the key and the nonce, an error otherwise.
Open(key, nonce, ciphertext) ==
    IF /\ Len(ciphertext) = 1
       /\ ciphertext[1].key = key
       /\ ciphertext[1].nonce = nonce
    THEN [val |-> ciphertext[1].plaintext, err |-> "ok"]
    ELSE [val |-> "", err |-> "message authentication failed"]

\* base64.StdEncoding.EncodeToString and DecodeString: a string that is not an
\* encoding decodes to an error.
EncodeToString(data) == [enc |-> "base64", data |-> data]

DecodeString(str) ==
    IF str.enc = "base64" THEN [val |-> str.data, err |-> "ok"]
    ELSE [val |-> <<>>, err |-> "illegal base64 data"]

\* utils.EncryptToken with the nonce rand.Reader gave it: the blob stored in
\* forwarder_bots.token.
EncryptToken(token, key, nonce) == EncodeToString(Seal(key, nonce, token))

\* utils.DecryptToken of a stored blob.
DecryptToken(encryptedToken, key) ==
    LET decoded == DecodeString(encryptedToken)
        data == decoded.val
    IN  IF decoded.err # "ok" THEN [val |-> "", err |-> decoded.err]
        ELSE IF Len(data) < NonceSize
        THEN [val |-> "", err |-> "ciphertext too short"]
        ELSE Open(key, data[1], SubSeq(data, NonceSize + 1, Len(data)))

\* handleAddBot's comparison of a credential with a stored one:
\* decryptErr == nil && decryptedToken == token.
SameToken(encryptedToken, token) ==
    LET decrypted == DecryptToken(encryptedToken, EncryptionKey)
    IN  decrypted.err = "ok" /\ decrypted.val = token

\* botRepository.GetAll: the rows that are not soft-deleted.
GetAll == {i \in DOMAIN botRows : ~botRows[i].deleted}

AuditLog(action, bot) == [action |-> action, bot |-> bot]

Tables(b, r, a) == [botRows |-> b, recipientRows |-> r, auditLogs |-> a]

\* The body of the transaction of handleAddBot: the bot row, whose token is
\* encrypted under a nonce no other row has (the row id stands for it), the manager's
\* recipient row unless it exists, the audit entry; it stops at the first
\* write that fails.  The tables as the transaction sees them, and its error.
AddBotWrites(id, token, wBot, wRecipient, wAudit) ==
    LET withBot == Append(botRows, [token |-> EncryptToken(token, EncryptionKey, id),
                                    manager |-> ManagerUser, deleted |-> FALSE])
        managerRow == [bot |-> id, type |-> "user", chat |-> ManagerUser]
        existingRecipient == {r \in recipientRows : r.bot = id /\ r.chat = ManagerUser}
        withRecipient == IF existingRecipient # {} THEN recipientRows
                         ELSE recipientRows \cup {managerRow}
        withAudit == Append(auditLogs, AuditLog("add_bot", id))
    IN  IF wBot = "err"
        THEN [tables |-> Tables(botRows, recipientRows, auditLogs),
              err |-> "failed to create bot"]
        ELSE IF existingRecipient = {} /\ wRecipient = "err"
        THEN [tables |-> Tables(withBot, recipientRows, auditLogs),
              err |-> "failed to add manager as recipient"]
        ELSE IF wAudit = "err"
        THEN [tables |-> Tables(withBot, withRecipient, auditLogs),
              err |-> "failed to create audit log"]
        ELSE [tables |-> Tables(withBot, withRecipient, withAudit), err |-> "ok"]

\* A transaction that keeps what it wrote when it fails.
TransactionNoRollback(before, written, failed) == written

\* db.Transaction: the writes are committed when the body returns nil and the
\* commit succeeds, rolled back otherwise.
Transaction(before, written, failed) == IF failed THEN before ELSE written

\* handleAddBot up to its transaction: the credential is validated with the
\* platform, the user row read, and the credential compared with the decrypted
\* token of every bot row; when GetAll fails the comparison is skipped.
AddBotCheck(c, token) ==
    /\ adding[c].pc = "idle"
    /\ Len(botRows) + Cardinality({d \in AddCalls : adding[d].pc = "tx"})
          < Cardinality(BotIDs)
    /\ \E getMe \in DbOutcome :
         IF getMe = "err"
         THEN adding' = [adding EXCEPT ![c] = [NoAdd EXCEPT !.ret = "invalid token"]]
         ELSE \E dbUser \in DbOutcome :
           IF dbUser = "err"
           THEN adding' = [adding EXCEPT ![c] = [NoAdd EXCEPT !.ret = "user error"]]
           ELSE \E dbGetAll \in DbOutcome :
             IF dbGetAll = "ok" /\ \E i \in GetAll : SameToken(botRows[i].token, token)
             THEN adding' = [adding EXCEPT ![c] =
                                [NoAdd EXCEPT !.ret = "bot already exists"]]
             ELSE adding' = [adding EXCEPT ![c] =
                                [pc |-> "tx", token |-> token, bot |-> 0, ret |-> "none"]]
    /\ UNCHANGED <<botRows, recipientRows, auditLogs, deleting, dispatched>>
    /\ UNCHANGED <<blVars, fwVars, foVars, yVars, svVars, rlVars, rtVars>>

\* The transaction of handleAddBot.
AddBotTx(c) ==
    /\ adding[c].pc = "tx"
    /\ \E wBot \in DbOutcome, wRecipient \in DbOutcome, wAudit \in DbOutcome,
          commit \in DbOutcome :
         LET id == Len(botRows) + 1
             body == AddBotWrites(id, adding[c].token, wBot, wRecipient, wAudit)
             failed == body.err # "ok" \/ commit = "err"
             after == Transaction(Tables(botRows, recipientRows, auditLogs),
                                  body.tables, failed)
         IN  /\ botRows' = after.botRows
             /\ recipientRows' = after.recipientRows
             /\ auditLogs' = after.auditLogs
             /\ adding' = [adding EXCEPT ![c] =
                   IF failed
                   THEN [NoAdd EXCEPT !.ret = IF body.err # "ok" THEN body.err
                                              ELSE "commit failed"]
                   ELSE [pc |-> "start", token |-> adding[c].token, bot |-> id,
                         ret |-> "none"]]
    /\ UNCHANGED <<deleting, dispatched>>
    /\ UNCHANGED <<blVars, fwVars, foVars, zVars, svVars, rlVars, rtVars>>

\* The answer of /addbot taking every start for a success.
StartReplySuccess(started) == "registered and started"

\* The answer of /addbot after StartBot: StartBot returns nil exactly when the
\* bot is in the map as it returns.
StartReply(started) ==
    IF started THEN "registered and started" ELSE "registered, failed to start"

\* The end of handleAddBot: the supervisor is asked to start the bot; GetByID
\* finds only a row that is not deleted.
AddBotStart(c) ==
    /\ adding[c].pc = "start"
    /\ \E db \in DbOutcome, built \in DbOutcome :
         LET b == adding[c].bot
             dbBot == IF botRows[b].deleted THEN "err" ELSE db
         IN  /\ startBot(b, dbBot, built)
             /\ adding' = [adding EXCEPT ![c] =
                   [NoAdd EXCEPT !.bot = b,
                                 !.ret = StartReply(b \in DOMAIN bots')]]
    /\ UNCHANGED <<botRows, recipientRows, auditLogs, deleting, dispatched>>

\* executeDeleteBot up to its StopBot: the bot row is read.
DeleteBotLoad(b) ==
    /\ deleting = <<>>
    /\ b \in DOMAIN botRows
    /\ \E db \in DbOutcome :
         IF db = "err" \/ botRows[b].deleted
         THEN UNCHANGED deleting
         ELSE deleting' = <<[bot |-> b, pc |-> "stop"]>>
    /\ UNCHANGED <<botRows, recipientRows, auditLogs, adding, dispatched>>
    /\ UNCHANGED <<blVars, fwVars, foVars, zVars, svVars, rlVars, rtVars>>

\* ... its StopBot ...
DeleteBotStop ==
    /\ deleting # <<>>
    /\ deleting[1].pc = "stop"
    /\ stopBot(deleting[1].bot)
    /\ deleting' = <<[deleting[1] EXCEPT !.pc = "delete"]>>
    /\ UNCHANGED <<botRows, recipientRows, auditLogs, adding, dispatched>>

\* ... and the delete of the row, with its audit entry, whose error is dropped.
DeleteBotDelete ==
    /\ deleting # <<>>
    /\ deleting[1].pc = "delete"
    /\ \E db \in DbOutcome :
         IF db = "err"
         THEN UNCHANGED <<botRows, auditLogs>>
         ELSE /\ botRows' = [botRows EXCEPT ![deleting[1].bot].deleted = TRUE]
              /\ \E wAudit \in DbOutcome :
                   auditLogs' = IF wAudit = "ok"
                                THEN Append(auditLogs,
                                            AuditLog("delete_bot", deleting[1].bot))
                                ELSE auditLogs
    /\ deleting' = <<>>
    /\ UNCHANGED <<recipientRows, adding, dispatched>>
    /\ UNCHANGED <<blVars, fwVars, foVars, zVars, svVars, rlVars, rtVars>>

\* The long-poll loop of an instance receives an update and the dispatcher
\* hands it to forwarderUpdateHandler.HandleUpdate.
Dispatch(h) ==
    /\ h \in DOMAIN instances
    /\ instances[h].polling
    /\ dispatched' = dispatched \cup
          {[bot |-> instances[h].bot, deleted |-> botRows[instances[h].bot].deleted]}
    /\ UNCHANGED <<botRows, recipientRows, auditLogs, adding, deleting>>
    /\ UNCHANGED <<blVars, fwVars, foVars, zVars, svVars, rlVars, rtVars>>

MgStart == BlIdle /\ FwInit /\ SvInit /\ XIdle

MgNext ==
    \/ \E c \in AddCalls, token \in Tokens : AddBotCheck(c, token) /\ UNCHANGED crVars
    \/ \E c \in AddCalls : AddBotTx(c)
    \/ \E c \in AddCalls : AddBotStart(c)
    \/ \E b \in BotIDs : DeleteBotLoad(b)
    \/ DeleteBotStop
    \/ DeleteBotDelete
    \/ \E h \in DOMAIN instances, polled \in DbOutcome : BotStartPolling(h, polled)
    \/ \E h \in DOMAIN instances : BotReturn(h)
    \/ \E h \in DOMAIN instances : Dispatch(h)

SpecManager == MgStart /\ [][MgNext]_vars

(***************************************************************************)
(* Properties of the manager control surface.                              *)
(***************************************************************************)
\* C13: while the row of a bot is deleted no instance of the bot has a long-poll
\* loop (the loop stopped before the delete and none started after), and no
\* update is dispatched to the handlers of a bot whose row is deleted.
C13_DeleteStopsLoop ==
    /\ \A b \in DOMAIN botRows :
          botRows[b].deleted => \A h \in InstancesOf(b) : ~instances[h].polling
    /\ \A d \in dispatched : ~d.deleted

HasBotRow(b) == b \in DOMAIN botRows
HasManagerRecipient(b) == \E r \in recipientRows : r.bot = b /\ r.chat = ManagerUser
HasAddAudit(b) == \E i \in DOMAIN auditLogs : auditLogs[i] = AuditLog("add_bot", b)

\* C14: whatever the outcome of an /addbot, a failure of any one of its three
\* writes or of the commit included, for each bot id the bot row, the manager's
\* recipient row and the add_bot audit entry all exist or none of them does.
C14_AddBotAtomic ==
    \A b \in BotIDs :
        /\ HasBotRow(b) <=> HasManagerRecipient(b)
        /\ HasBotRow(b) <=> HasAddAudit(b)

\* C14 witness: one /addbot committed its three rows and another failed at its
\* third write, the audit entry, leaving no row.
C14_Witness ==
    /\ Len(botRows) = 1
    /\ HasBotRow(1) /\ HasManagerRecipient(1) /\ HasAddAudit(1)
    /\ \E c \in AddCalls : adding[c].ret = "failed to create audit log"
    /\ \A c \in AddCalls : adding[c].pc = "idle"

\* C15: no two bot rows that are not deleted hold the same credential, and an
\* /addbot for a credential already registered is rejected without going on to
\* its transaction or to a start.
C15_NoDuplicateCredential ==
    /\ [](\A i \in GetAll, j \in GetAll :
             i # j => DecryptToken(botRows[i].token, EncryptionKey)
                         # DecryptToken(botRows[j].token, EncryptionKey))
    /\ [][\A c \in AddCalls, token \in Tokens :
             (/\ \E i \in GetAll : SameToken(botRows[i].token, token)
              /\ AddBotCheck(c, token))
             => adding'[c].pc = "idle"]_vars

\* C37: every bot in the supervisor's map has a bot row that is not deleted,
\* however /addbot's start and a confirmed deletion interleave.
C37_RunningHasRow ==
    \A b \in DOMAIN bots : b \in DOMAIN botRows /\ ~botRows[b].deleted

TicksPerSecond == 2   \* resolution of the clock
MaxTicks == 4         \* last tick the clock reaches
MaxCalls == 4         \* allow calls made
MaxRate == 2          \* largest rate a scope is configured with

\* limitPerSecond of a key: AllowTelegramAPI and AllowGuestMessage pass the rate
\* of their scope.
LimitOf(key) ==
    IF key = "telegram_api" THEN config.TelegramAPI ELSE config.GuestMessage

\* A bucket created without tokens.
NewBucketEmpty(limitPerSecond, t) ==
    [tokens |-> 0, lastUpdate |-> t,
     capacity |-> limitPerSecond * TicksPerSecond, rate |-> limitPerSecond]

\* The tokenBucket allowWithMemory creates for a key it does not hold.
NewBucket(limitPerSecond, t) ==
    [tokens |-> limitPerSecond * TicksPerSecond, lastUpdate |-> t,
     capacity |-> limitPerSecond * TicksPerSecond, rate |-> limitPerSecond]

min(a, b) == IF a < b THEN a ELSE b

\* RateLimiter.allowWithMemory, under rl.mutex: the bucket is created if absent,
\* refilled for the time elapsed since its last update, and a token is taken if
\* one is there.
allowWithMemory(key, limitPerSecond) ==
    /\ Len(allowLog["telegram_api"]) + Len(allowLog["guest:1:1"])
          + Len(allowLog["guest:2:1"]) < MaxCalls
    /\ LET bucket == IF key \in DOMAIN memoryStore THEN memoryStore[key]
                     ELSE NewBucket(limitPerSecond, clock)
           elapsed == clock - bucket.lastUpdate
           tokensToAdd == elapsed * bucket.rate
           tokens == min(bucket.capacity, bucket.tokens + tokensToAdd)
           allowed == tokens >= TicksPerSecond
           updated == [bucket EXCEPT !.lastUpdate = clock,
                                     !.tokens = IF allowed THEN tokens - TicksPerSecond
                                                ELSE tokens]
       IN  /\ memoryStore' = [k \in DOMAIN memoryStore \cup {key} |->
                                 IF k = key THEN updated ELSE memoryStore[k]]
           /\ allowLog' = [allowLog EXCEPT ![key] =
                              Append(@, [t |-> clock, ok |-> allowed])]
    /\ UNCHANGED <<config, clock>>
    /\ UNCHANGED <<blVars, fwVars, foVars, zVars, svVars, rtVars, mgVars>>

\* Time passes.
Advance ==
    /\ clock < MaxTicks
    /\ clock' = clock + 1
    /\ UNCHANGED <<config, memoryStore, allowLog>>
    /\ UNCHANGED <<blVars, fwVars, foVars, zVars, svVars, rtVars, mgVars>>

\* The limiter is built with the rates of the configuration.
RlStart ==
    /\ config \in [TelegramAPI : 1..MaxRate, GuestMessage : 1..MaxRate]
    /\ clock = 0
    /\ memoryStore = <<>>
    /\ allowLog = [k \in Keys |-> <<>>]
    /\ BlIdle /\ FwInit /\ SvInit /\ RtIdle /\ MgIdle
    /\ FoIdle /\ EnIdle /\ RcIdle /\ MdIdle /\ CvIdle /\ CrIdle /\ WIdle

RlNext ==
    \/ \E key \in Keys : allowWithMemory(key, LimitOf(key))
    \/ Advance

SpecRateLimiter == RlStart /\ [][RlNext]_vars

(***************************************************************************)
(* Properties of the rate limiter.                                         *)
(***************************************************************************)
\* The allow calls on key that returned true in the second that starts at w.
AllowedIn(key, w) ==
    {j \in DOMAIN allowLog[key] :
        /\ allowLog[key][j].ok
        /\ w <= allowLog[key][j].t
        /\ allowLog[key][j].t < w + TicksPerSecond}

\* C16: for every key and every window of one second, at most `rate of the
\* scope` allow calls on the key returned true within the window.
C16_WindowBound ==
    \A key \in Keys, w \in 0..MaxTicks :
        Cardinality(AllowedIn(key, w)) <= LimitOf(key)

\* C17: for each key, whatever calls are made on the other keys, the calls made
\* at the instant of the first one on the key are admitted up to the rate-th and
\* denied from there on, and a call that comes at least a second after the
\* previous call on the key is admitted.
C17_BurstThenRefill ==
    \A key \in Keys :
        LET log == allowLog[key]
        IN  /\ \A j \in DOMAIN log :
                  log[j].t = log[1].t => (log[j].ok <=> j <= LimitOf(key))
            /\ \A j \in DOMAIN log :
                  (j > 1 /\ log[j].t - log[j - 1].t >= TicksPerSecond) => log[j].ok

\* C17 witness: a key of rate 1 admitted its first call, denied the second made
\* at the same instant and admitted one a second later, while another key was
\* called in between.
C17_Witness ==
    \E key \in Keys, other \in Keys :
        /\ key # other
        /\ LimitOf(key) = 1
        /\ Len(allowLog[key]) = 3
        /\ allowLog[key][1].ok /\ ~allowLog[key][2].ok /\ allowLog[key][3].ok
        /\ allowLog[key][2].t = allowLog[key][1].t
        /\ allowLog[key][3].t = allowLog[key][2].t + TicksPerSecond
        /\ Len(allowLog[other]) = 1
        /\ allowLog[other][1].ok

(***************************************************************************)
(* The retry executor, step by step: RetryHandler.Retry with the context   *)
(* it is called with.  An error stands for the class isRetryableError puts *)
(* it in.                                                                  *)
(***************************************************************************)
\* What fn returns: nil ("ok"), a net.Error that is a timeout, one that is
\* temporary, one that is neither, or an error whose text holds a status.
RetryErrors ==
    {"timeout", "temporary", "net", "429", "Too Many Requests", "500", "502", "503",
     "504", "400", "403", "invalid input"}

\* A select that never takes ctx.Done().
SelectTimerOnly(done) == "time.After"

\* The select between two attempts: ctx.Done() once the context is cancelled,
\* else the timer when the interval has passed.
SelectCase(done) == IF done THEN "ctx.Done" ELSE "time.After"

\* Retry is called.
RetryStart ==
    /\ retry.pc = "idle"
    /\ retry' = [NoRetry EXCEPT !.pc = "loop"]
    /\ UNCHANGED ctxDone
    /\ UNCHANGED <<blVars, fwVars, foVars, zVars, svVars, rlVars, mgVars>>

\* One round of the loop up to its select: fn is called and returns out.
RetryAttempt(out) ==
    /\ retry.pc = "loop"
    /\ retry.i < MaxAttempts
    /\ LET called == [retry EXCEPT !.calls = Append(@, out)]
       IN  retry' =
              IF out = "ok"
              THEN [called EXCEPT !.pc = "done", !.ret = "ok"]
              ELSE IF ~isRetryableError(out)
              THEN [called EXCEPT !.pc = "done", !.ret = out]
              ELSE IF retry.i < MaxAttempts - 1
              THEN [called EXCEPT !.pc = "wait"]
              ELSE [called EXCEPT !.pc = "done", !.i = @ + 1, !.ret = Wrap(out)]
    /\ UNCHANGED ctxDone
    /\ UNCHANGED <<blVars, fwVars, foVars, zVars, svVars, rlVars, mgVars>>

\* The select returns: with ctx.Err(), or for the next round.
RetrySelect ==
    /\ retry.pc = "wait"
    /\ retry' = IF SelectCase(ctxDone) = "ctx.Done"
                THEN [retry EXCEPT !.pc = "done", !.ret = "context canceled"]
                ELSE [retry EXCEPT !.pc = "loop", !.i = @ + 1, !.waits = @ + 1]
    /\ UNCHANGED ctxDone
    /\ UNCHANGED <<blVars, fwVars, foVars, zVars, svVars, rlVars, mgVars>>

\* The context is cancelled.
Cancel ==
    /\ ~ctxDone
    /\ ctxDone' = TRUE
    /\ UNCHANGED retry
    /\ UNCHANGED <<blVars, fwVars, foVars, zVars, svVars, rlVars, mgVars>>

RtStart == BlIdle /\ FwInit /\ SvInit /\ XIdle

RtNext ==
    \/ RetryStart
    \/ \E out \in RetryErrors \cup {"ok"} : RetryAttempt(out)
    \/ RetrySelect
    \/ Cancel

SpecRetry == RtStart /\ [][RtNext]_vars

(***************************************************************************)
(* Properties of the retry executor.                                       *)
(***************************************************************************)
\* The classes of §4.3 among RetryErrors.
Retryable ==
    {"timeout", "temporary", "429", "Too Many Requests", "500", "502", "503", "504"}
NonRetryable == {"net", "400", "403", "invalid input"}

AppendErrorNone(errs, err) == errs

\* result.Errors = append(result.Errors, err), in the two failure branches of a
\* recipient's goroutine; a goroutine that succeeded appends nothing.
AppendError(errs, err) == IF err = "ok" THEN errs ELSE Append(errs, err)

\* The summary posted whatever the result.
NotifyAlways(res) == TRUE

\* `result.FailureCount > 0 && f.managerNotifier != nil`: main.go sets the
\* notifier before any bot starts.
NotifyNeeded(res) == res.failure > 0

\* ManagerNotifier.NotifyManager: the bot row, its manager's row, SendMessage.
NotifyManager(dbBot, dbManager, send) ==
    IF dbBot = "err" THEN "failed to get bot"
    ELSE IF dbManager = "err" THEN "failed to get manager"
    ELSE IF send # "ok" THEN "failed to send notification"
    ELSE "ok"

\* A recipient's goroutine as TaskForward, with the error it appends to
\* result.Errors and the audit row CheckRecipient writes after a delete; the
\* outcome of auditLogRepo.Create is not looked at.
TaskForwardRecorded(r) ==
    /\ TaskForward(r)
    /\ errors' = AppendError(errors, tasks'[r].err)
    /\ \E dbAudit \in DbOutcome :
          delAudits' = IF recipients' # recipients /\ dbAudit = "ok"
                       THEN Append(delAudits, r.chat)
                       ELSE delAudits
    /\ UNCHANGED <<managerNotes, returned>>

\* ForwardToRecipients from wg.Wait to its return: the summary for the manager
\* when a recipient failed, then `return result, nil`.
ForwardReturn ==
    /\ ForwardDone
    /\ IF NotifyNeeded(result)
       THEN \E dbBot \in DbOutcome, dbManager \in DbOutcome, send \in {"ok", "500"} :
              managerNotes' = Append(managerNotes,
                 [chat |-> fwd[1].chat, msg |-> fwd[1].msg,
                  success |-> result.success, failure |-> result.failure,
                  errors |-> errors,
                  sent |-> NotifyManager(dbBot, dbManager, send) = "ok"])
       ELSE UNCHANGED managerNotes
    /\ returned' = Append(returned,
          [chat |-> fwd[1].chat, msg |-> fwd[1].msg, recipients |-> DOMAIN tasks,
           success |-> result.success, failure |-> result.failure, errors |-> errors])
    /\ errors' = <<>>
    /\ UNCHANGED delAudits

FoStart == BlIdle /\ FwInit /\ SvInit /\ XIdle

\* The fan-out is run on the messages of one guest.
FoGuest == [chat |-> 1, user |-> 1]

FoNext ==
    \/ HandleText(FoGuest)
    \/ \E r \in DOMAIN tasks : TaskForwardRecorded(r)
    \/ \E r \in DOMAIN tasks : TaskCreateMapping(r)
    \/ ForwardReturn
    \/ Refill

SpecFanout == FoStart /\ [][FoNext]_vars

(***************************************************************************)
(* Properties of the fan-out's results and notices.                        *)
(***************************************************************************)
\* The recipients of the call in progress whose forward failed for good.
Failed == {r \in DOMAIN tasks : tasks[r].pc = "done" /\ tasks[r].err # "ok"}

\* The call in progress returns in this step.
Returns == fwd # <<>> /\ fwd' = <<>>

GoneClass == {"400", "403"}

\* C22: a recipient whose forward failed for good with an error of the gone
\* class is deleted and an audit row is written; after any other failure the
\* recipients stay as they are.
C22_GonePruned ==
    [][\A r \in DOMAIN tasks :
          (tasks[r].pc = "start" /\ r \in DOMAIN tasks' /\ tasks'[r].pc = "done") =>
             IF tasks'[r].err \in GoneClass
             THEN r \notin recipients' /\ delAudits' = Append(delAudits, r.chat)
             ELSE recipients' = recipients /\ delAudits' = delAudits]_vars

\* C29: every recipient loaded has a task of its own and each task is counted
\* once, whatever the others did: while the call runs the counts and the errors
\* are those of the tasks that finished, and the result returned accounts for
\* every recipient, with one error per failure.
C29_EachCountedOnce ==
    /\ fwd # <<>> =>
          /\ result.failure = Cardinality(Failed)
          /\ result.success =
                Cardinality({r \in DOMAIN tasks : tasks[r].pc = "done"} \ Failed)
          /\ Len(errors) = Cardinality(Failed)
          /\ \A r \in Failed :
                Cardinality({i \in DOMAIN errors : errors[i] = tasks[r].err})
                   = Cardinality({q \in Failed : tasks[q].err = tasks[r].err})
    /\ \A i \in DOMAIN returned :
          /\ returned[i].success + returned[i].failure
                = Cardinality(returned[i].recipients)
          /\ Len(returned[i].errors) = returned[i].failure

\* C29 witness: a call returned with one recipient served and the other failed.
C29_Witness ==
    \E i \in DOMAIN returned :
        /\ returned[i].success = 1 /\ returned[i].failure = 1
        /\ Cardinality(returned[i].recipients) = 2

HourTicks == 2        \* clock ticks in `1*time.Hour`
MaxEnClock == 5       \* last tick the notifier's clock reaches
MaxNotifyCalls == 4   \* NotifyCriticalError calls made

\* ErrorTypeDatabase, ErrorTypeRedis, ErrorTypeBotToken, ErrorTypeSystem
ErrorTypes == {"database", "redis", "bot_token", "system"}

\* No call held back.
DebounceNever(exists, since) == FALSE

\* `exists && time.Since(lastNotified) < 1*time.Hour`
Debounce(exists, since) == exists /\ since < HourTicks

\* NotifyCriticalError(errType): held back by the debounce, or the time is
\* kept in notifiedErrs and the message goes to every superuser; a send that
\* fails is logged.
NotifyCriticalError(errType) ==
    /\ Len(notifyLog) < MaxNotifyCalls
    /\ LET exists == errType \in DOMAIN notifiedErrs
           since == IF exists THEN enClock - notifiedErrs[errType] ELSE 0
       IN  IF Debounce(exists, since)
           THEN /\ notifyLog' = Append(notifyLog,
                                   [kind |-> errType, at |-> enClock, sent |-> FALSE])
                /\ UNCHANGED notifiedErrs
           ELSE /\ notifiedErrs' = [k \in DOMAIN notifiedErrs \cup {errType} |->
                                      IF k = errType THEN enClock ELSE notifiedErrs[k]]
                /\ notifyLog' = Append(notifyLog,
                                   [kind |-> errType, at |-> enClock, sent |-> TRUE])
    /\ UNCHANGED enClock
    /\ UNCHANGED <<blVars, fwVars, svVars, rlVars, rtVars, mgVars, foVars, rcVars, mdVars, cvVars, crVars, wVars>>

\* Time passes.
EnAdvance ==
    /\ enClock < MaxEnClock
    /\ enClock' = enClock + 1
    /\ UNCHANGED <<notifiedErrs, notifyLog>>
    /\ UNCHANGED <<blVars, fwVars, svVars, rlVars, rtVars, mgVars, foVars, rcVars, mdVars, cvVars, crVars, wVars>>

EnStart == BlIdle /\ FwInit /\ SvInit /\ XIdle

EnNext ==
    \/ \E errType \in ErrorTypes : NotifyCriticalError(errType)
    \/ EnAdvance

SpecErrorNotifier == EnStart /\ [][EnNext]_vars

\* C24: two notifications of one kind are at least an hour apart, so no span of
\* one hour holds two of them, however many calls of that kind are made.
C24_OnePerHour ==
    \A i \in DOMAIN notifyLog, j \in DOMAIN notifyLog :
        (/\ i < j
         /\ notifyLog[i].sent /\ notifyLog[j].sent
         /\ notifyLog[i].kind = notifyLog[j].kind)
        => notifyLog[j].at - notifyLog[i].at >= HourTicks

\* C24 witness: a kind was notified, a call of that kind within the hour was
\* held back, and a call after the hour was notified again.
C24_Witness ==
    \E i \in DOMAIN notifyLog, j \in DOMAIN notifyLog, k \in DOMAIN notifyLog :
        /\ i < j /\ j < k
        /\ notifyLog[i].kind = notifyLog[j].kind /\ notifyLog[j].kind = notifyLog[k].kind
        /\ notifyLog[i].sent /\ ~notifyLog[j].sent /\ notifyLog[k].sent
        /\ notifyLog[j].at > notifyLog[i].at

(***************************************************************************)
(* The recipients table of one bot under /addrecipient, /delrecipient and  *)
(* the health monitor.  The dispatcher runs every update in a goroutine of *)
(* its own, so two commands can be in progress at once.                    *)
(***************************************************************************)
MaxRecipientRows == 3   \* rows the recipients table reaches

\* database.type of the configuration
DbTypes == {"mysql", "postgres", "sqlite"}

\* The chat ids given to the commands: a user and a group (a negative id).
RecipientChats == {10, -20}

\* Recipient rows deleted_at IS NULL of a chat: what gorm's soft-delete scope
\* leaves of `bot_id = ? AND chat_id = ?`.
LiveRows(chat) ==
    {i \in DOMAIN recipientTable :
        recipientTable[i].chat = chat /\ ~recipientTable[i].deleted}

\* createIndexes: the partial unique index idx_recipient_bot_chat on
\* (bot_id, chat_id) WHERE deleted_at IS NULL exists on postgres and sqlite only.
HasPartialIndex == dbType \in {"postgres", "sqlite"}

\* recipientRepository.Delete(id): the row gets its deleted_at.
DeleteRow(id) == [recipientTable EXCEPT ![id].deleted = TRUE]

\* handleAddRecipient up to recipientRepo.Create: the command goes on unless
\* GetByBotIDAndChatID returned a row without an error.
AddRecipientCheck(c, chat) ==
    /\ addingRecipient[c].pc = "idle"
    /\ Len(recipientTable)
          + Cardinality({d \in AddCalls : addingRecipient[d].pc # "idle"})
          < MaxRecipientRows
    /\ \E dbGet \in DbOutcome :
          addingRecipient' = [addingRecipient EXCEPT ![c] =
              IF dbGet = "ok" /\ LiveRows(chat) # {}
              THEN [pc |-> "idle", chat |-> chat]
              ELSE [pc |-> "create", chat |-> chat]]
    /\ UNCHANGED <<dbType, recipientTable>>
    /\ UNCHANGED <<blVars, fwVars, svVars, rlVars, rtVars, mgVars, foVars, enVars, mdVars, cvVars, crVars, wVars>>

\* Recipient.BeforeCreate inside db.Create: the count of live rows of the chat;
\* the error of the count is not looked at, and count stays 0 when it fails.
BeforeCreate(c) ==
    /\ addingRecipient[c].pc = "create"
    /\ \E dbCount \in DbOutcome :
          LET count == IF dbCount = "ok"
                       THEN Cardinality(LiveRows(addingRecipient[c].chat)) ELSE 0
          IN  addingRecipient' = [addingRecipient EXCEPT ![c].pc =
                                     IF count > 0 THEN "idle" ELSE "insert"]
    /\ UNCHANGED <<dbType, recipientTable>>
    /\ UNCHANGED <<blVars, fwVars, svVars, rlVars, rtVars, mgVars, foVars, enVars, mdVars, cvVars, crVars, wVars>>

\* The INSERT of db.Create: refused by the partial unique index where there is
\* one and a live row of the chat exists.
InsertRecipient(c) ==
    /\ addingRecipient[c].pc = "insert"
    /\ LET chat == addingRecipient[c].chat
       IN  \E dbInsert \in DbOutcome :
             recipientTable' =
                IF dbInsert = "err" \/ (HasPartialIndex /\ LiveRows(chat) # {})
                THEN recipientTable
                ELSE Append(recipientTable,
                            [chat |-> chat,
                             type |-> IF chat < 0 THEN "group" ELSE "user",
                             deleted |-> FALSE])
    /\ addingRecipient' = [addingRecipient EXCEPT ![c].pc = "idle"]
    /\ UNCHANGED dbType
    /\ UNCHANGED <<blVars, fwVars, svVars, rlVars, rtVars, mgVars, foVars, enVars, mdVars, cvVars, crVars, wVars>>

\* handleDelRecipient: the row First returns for the chat is deleted by its id.
handleDelRecipient(chat) ==
    /\ \E dbGet \in DbOutcome, dbDelete \in DbOutcome :
          IF dbGet = "err" \/ LiveRows(chat) = {} \/ dbDelete = "err"
          THEN UNCHANGED recipientTable
          ELSE \E id \in LiveRows(chat) : recipientTable' = DeleteRow(id)
    /\ UNCHANGED <<dbType, addingRecipient>>
    /\ UNCHANGED <<blVars, fwVars, svVars, rlVars, rtVars, mgVars, foVars, enVars, mdVars, cvVars, crVars, wVars>>

\* GroupMonitor.CheckRecipient on a row of the table: a group whose GetChat
\* fails with 400 or 403 is deleted by its id.
PruneRecipient(id) ==
    /\ ~recipientTable[id].deleted
    /\ \E getChat \in ApiOutcome, dbDelete \in DbOutcome :
          recipientTable' =
             IF recipientTable[id].type = "group" /\ getChat \in {"400", "403"}
                /\ dbDelete = "ok"
             THEN DeleteRow(id)
             ELSE recipientTable
    /\ UNCHANGED <<dbType, addingRecipient>>
    /\ UNCHANGED <<blVars, fwVars, svVars, rlVars, rtVars, mgVars, foVars, enVars, mdVars, cvVars, crVars, wVars>>

RcStart ==
    /\ BlIdle /\ FwInit /\ SvInit
    /\ RlIdle /\ RtIdle /\ MgIdle /\ FoIdle /\ EnIdle /\ MdIdle /\ CvIdle /\ CrIdle
    /\ WIdle
    /\ dbType \in DbTypes
    /\ recipientTable = <<>>
    /\ addingRecipient = [c \in AddCalls |-> [pc |-> "idle", chat |-> 0]]

RcNext ==
    \/ \E c \in AddCalls, chat \in RecipientChats : AddRecipientCheck(c, chat)
    \/ \E c \in AddCalls : BeforeCreate(c)
    \/ \E c \in AddCalls : InsertRecipient(c)
    \/ \E chat \in RecipientChats : handleDelRecipient(chat)
    \/ \E id \in DOMAIN recipientTable : PruneRecipient(id)

SpecRecipients == RcStart /\ [][RcNext]_vars

\* C23: whatever was added, deleted and pruned, and however the commands
\* interleave, a chat has at most one recipient row that is not deleted.
C23_OneLiveRow ==
    \A chat \in RecipientChats : Cardinality(LiveRows(chat)) <= 1

(***************************************************************************)
(* Moderation through the forwarder bot: the guest's own /unban and the    *)
(* Approve / Reject buttons of the approval prompts.                       *)
(***************************************************************************)
MaxModCalls == 2   \* /unban commands and button callbacks handled

AdminUser == 11    \* telegram user id of the bot's one admin

\* Who is sent the approval prompts: the manager and the rows of bot_admins.
Reviewers == {ManagerUser, AdminUser}

\* Who presses a button: a reviewer, the guest the entry is about, a stranger.
Callers == Reviewers \cup {1, 30}

\* The action a button's callback data carries; "status" is the button of a
\* prompt that was edited.
CallbackActions == {"approve", "reject", "status"}

\* Every caller passed as manager.
IsManagerOrAdminAlways(user, dbBot, dbUser, dbAdmin) == Result(TRUE, FALSE)

\* Service.IsManagerOrAdmin: IsManager reads the bot row and the user's row;
\* when the user is not the manager IsAdmin asks bot_admins.
IsManagerOrAdmin(user, dbBot, dbUser, dbAdmin) ==
    IF dbBot = "err" \/ dbUser = "err" THEN Result(FALSE, TRUE)
    ELSE IF user = ManagerUser THEN Result(TRUE, FALSE)
    ELSE IF dbAdmin = "err" THEN Result(FALSE, TRUE)
    ELSE Result(user = AdminUser, FALSE)

\* blacklistApprovalMessageRepo.GetByBlacklistID
GetByBlacklistID(id) == {m \in approvalMessages : m.blacklist = id}

\* editApprovalMessages: every prompt of msgs shows the decision and who took
\* it; an edit that fails is logged, edited holds the ones that went through.
editApprovalMessages(msgs, edited, executor, status) ==
    {IF m \in msgs \cap edited
     THEN [m EXCEPT !.text = status, !.by = executor]
     ELSE m : m \in approvalMessages}

\* What a handler leaves when it answers without acting.
Answer(op, user, id, text) ==
    /\ modLog' = Append(modLog, [op |-> op, user |-> user, id |-> id, answer |-> text])
    /\ UNCHANGED <<blacklists, guests, creating, ret>>
    /\ UNCHANGED <<approvalMessages, guestNotices, modAudits>>

\* Service.handleBlacklistCallback(action, id) on a button pressed by user.
handleBlacklistCallback(action, id, user) ==
    /\ Len(modLog) < MaxModCalls
    /\ \E dbGet \in DbOutcome, dbBot \in DbOutcome, dbUser \in DbOutcome,
          dbAdmin \in DbOutcome :
         LET isManagerOrAdmin == IsManagerOrAdmin(user, dbBot, dbUser, dbAdmin)
         IN  IF dbGet = "err" \/ id \notin DOMAIN blacklists
             THEN Answer(action, user, id, "Blacklist request not found")
             ELSE IF isManagerOrAdmin.err \/ ~isManagerOrAdmin.val
             THEN Answer(action, user, id,
                         "Only the manager or admin can approve/reject requests")
             ELSE \E dbGetOrCreate \in DbOutcome, dbMessages \in DbOutcome,
                     dbUpdate \in DbOutcome, edited \in SUBSET GetByBlacklistID(id) :
                  LET msgs == IF dbMessages = "ok" THEN GetByBlacklistID(id) ELSE {}
                      done == [op |-> action, user |-> user, id |-> id, answer |-> ""]
                  IN  IF dbGetOrCreate = "err"
                      THEN Answer(action, user, id, "An error occurred")
                      ELSE IF action = "approve"
                      THEN IF dbUpdate = "err"
                           THEN Answer(action, user, id, "Failed to approve request")
                           ELSE /\ blacklists' = ApprovePendingRows(id)
                                /\ \E dbGuest \in DbOutcome :
                                     guestNotices' =
                                        IF dbGuest = "ok"
                                        THEN Append(guestNotices,
                                               [guest |-> blacklists[id].guest,
                                                kind |-> blacklists[id].requestType])
                                        ELSE guestNotices
                                /\ \E dbAudit \in DbOutcome :
                                     modAudits' =
                                        IF dbAudit = "ok"
                                        THEN Append(modAudits,
                                               [user |-> user, blacklist |-> id,
                                                action |-> blacklists[id].requestType])
                                        ELSE modAudits
                                /\ approvalMessages' =
                                      editApprovalMessages(msgs, edited, user, "approved")
                                /\ modLog' = Append(modLog, done)
                                /\ UNCHANGED <<guests, creating, ret>>
                      ELSE IF action = "reject"
                      THEN IF dbUpdate = "err"
                           THEN Answer(action, user, id, "Failed to reject request")
                           ELSE /\ blacklists' = RejectPendingRows(id)
                                /\ approvalMessages' =
                                      editApprovalMessages(msgs, edited, user, "rejected")
                                /\ modLog' = Append(modLog, done)
                                /\ UNCHANGED <<guests, creating, ret>>
                                /\ UNCHANGED <<guestNotices, modAudits>>
                      ELSE Answer(action, user, id, "Unknown action")
    /\ UNCHANGED <<now, tickerC>>
    /\ UNCHANGED nmVars

\* Service.handleUnban on a message of guest u that is not a reply, up to the
\* insert of CreateUnbanRequest: the guest has to be blacklisted, then the
\* request is made in the guest's own name.
handleUnban(u) ==
    /\ Len(modLog) < MaxModCalls
    /\ creating = <<>>
    /\ Len(blacklists) < MaxEntries
    /\ \E dbGuest \in DbOutcome, dbLatest \in DbOutcome :
         LET isBlacklisted == IsBlacklisted(u, dbGuest, dbLatest)
         IN  IF isBlacklisted.err
             THEN /\ Answer("unban", u, 0, "An error occurred while checking your status")
                  /\ UNCHANGED <<now, tickerC>> /\ UNCHANGED nmVars
             ELSE IF ~isBlacklisted.val
             THEN /\ Answer("unban", u, 0, "You are not currently blacklisted.")
                  /\ UNCHANGED <<now, tickerC>> /\ UNCHANGED nmVars
             ELSE \E dbUser \in DbOutcome, dg \in DbOutcome, dl \in DbOutcome :
                  IF dbUser = "err"
                  THEN /\ Answer("unban", u, 0, "An error occurred")
                       /\ UNCHANGED <<now, tickerC>> /\ UNCHANGED nmVars
                  ELSE /\ CreateUnbanRequest(u, u, dg, dl)
                       /\ modLog' = Append(modLog,
                             [op |-> "unban", user |-> u, id |-> 0,
                              answer |-> IF dg = "ok" /\ dl = "ok" THEN "" ELSE "db"])
                       /\ UNCHANGED <<approvalMessages, guestNotices, modAudits>>

\* The rest of handleUnban: the insert that ends CreateUnbanRequest, then
\* sendApprovalRequestToManagersAndAdmins.  A prompt is stored for the
\* reviewers in sent, the ones the prompt reached and whose row was written.
handleUnbanSend ==
    /\ creating # <<>>
    /\ \E dbCreate \in DbOutcome, sent \in SUBSET Reviewers :
         /\ BlacklistCreate(dbCreate)
         /\ approvalMessages' =
               IF dbCreate = "err" THEN approvalMessages
               ELSE approvalMessages \cup
                    {[blacklist |-> Len(blacklists) + 1, user |-> r,
                      text |-> "open", by |-> 0] : r \in sent}
    /\ UNCHANGED <<guestNotices, modAudits, modLog>>

\* The tables the moderation is run on: guest 1 with each latest entry, every
\* pending entry with its prompts at the two reviewers.
ModHistories ==
    Histories \cup {<<>>, <<Entry(1, "ban", "approved")>>,
                    <<Entry(1, "ban", "approved"), Entry(1, "unban", "rejected")>>}

MdStart ==
    /\ now = 0
    /\ tickerC = FALSE
    /\ blacklists \in ModHistories
    /\ guests = {blacklists[i].guest : i \in DOMAIN blacklists}
    /\ creating = <<>>
    /\ ret = NoRet
    /\ FwInit /\ SvInit
    /\ RlIdle /\ RtIdle /\ MgIdle /\ FoIdle /\ EnIdle /\ RcIdle /\ CvIdle /\ CrIdle
    /\ WIdle
    /\ approvalMessages =
          {[blacklist |-> i, user |-> r, text |-> "open", by |-> 0] :
              i \in {j \in DOMAIN blacklists : blacklists[j].status = "pending"},
              r \in Reviewers}
    /\ guestNotices = <<>>
    /\ modAudits = <<>>
    /\ modLog = <<>>

MdNext ==
    \/ \E action \in CallbackActions, id \in 1..MaxEntries, user \in Callers :
          handleBlacklistCallback(action, id, user)
    \/ \E u \in GuestUsers : handleUnban(u)
    \/ handleUnbanSend

SpecModeration == MdStart /\ [][MdNext]_vars

(***************************************************************************)
(* Properties of the moderation handlers.                                  *)
(***************************************************************************)
\* A handler was called in this step; Call is its record.
Called == Len(modLog') = Len(modLog) + 1
Call == modLog'[Len(modLog')]

\* C25: a button pressed by a user who is neither the manager nor an admin
\* changes nothing: no entry's status, no audit row, no notice to a guest, no
\* prompt; so a callback changes a status only for the manager or an admin.
C25_OnlyReviewersDecide ==
    [][(Called /\ Call.op \in CallbackActions /\ Call.user \notin Reviewers) =>
          /\ blacklists' = blacklists
          /\ modAudits' = modAudits
          /\ guestNotices' = guestNotices
          /\ approvalMessages' = approvalMessages]_vars

\* C25 witness: a stranger's Approve left the pending entry as it was and the
\* admin's Approve then approved it.
C25_Witness ==
    /\ Len(modLog) = 2
    /\ modLog[1].op = "approve" /\ modLog[1].user = 30
    /\ modLog[2].op = "approve" /\ modLog[2].user = AdminUser
    /\ modLog[1].id = modLog[2].id
    /\ modLog[2].id \in DOMAIN blacklists
    /\ blacklists[modLog[2].id].status = "approved"
    /\ Len(modAudits) = 1

\* C26: a guest's /unban that is not a reply opens a pending unban entry for
\* the guest, requested by the guest, when the guest is blacklisted (and the
\* stores answer), and opens none when the guest is not.
C26_SelfUnban ==
    [][\A u \in GuestUsers :
          (Called /\ Call.op = "unban" /\ Call.user = u /\ Call.answer # "db") =>
             IF ExpectedBlacklisted(u)
             THEN \/ creating' = <<[kind |-> "unban", guest |-> u, requestUser |-> u]>>
                  \/ Call.answer \in {"An error occurred while checking your status",
                                      "An error occurred"}
             ELSE \/ creating' = <<>> /\ blacklists' = blacklists
                  \/ Call.answer = "An error occurred while checking your status"]_vars

\* C33: an Approve or Reject pressed on an entry that is not pending changes
\* nothing: the entry's status stays, no notice goes to the guest, no audit row
\* is written and no prompt is edited.
C33_DecidedIsFinal ==
    [][(/\ Called
        /\ Call.op \in {"approve", "reject"}
        /\ Call.id \in DOMAIN blacklists
        /\ blacklists[Call.id].status # "pending") =>
          /\ blacklists' = blacklists
          /\ guestNotices' = guestNotices
          /\ modAudits' = modAudits
          /\ approvalMessages' = approvalMessages]_vars

(***************************************************************************)
(* The approval prompts under every way an entry is decided: the buttons   *)
(* and the auto-approve worker.                                            *)
(***************************************************************************)
PrNext ==
    \/ MdNext
    \/ Tick
    \/ AutoApproveExpired

SpecPrompts == MdStart /\ [][PrNext]_vars

\* The prompts stored for entry i.
PromptsOf(i) == {m \in approvalMessages : m.blacklist = i}

\* C36: every pending entry has a prompt at the manager and at every admin,
\* and no prompt of an entry that is decided still shows its Approve and
\* Reject buttons.
C36_PromptsFollowEntry ==
    \A i \in DOMAIN blacklists :
        IF blacklists[i].status = "pending"
        THEN \A r \in Reviewers : \E m \in PromptsOf(i) : m.user = r
        ELSE \A m \in PromptsOf(i) : m.text # "open"

(***************************************************************************)
(* The credential vault: utils.EncryptToken and utils.DecryptToken applied *)
(* to a token under the keys a process can hold.                           *)
(***************************************************************************)
\* The tokens encrypted: the credentials and the empty string.
VaultTokens == Tokens \cup {""}

\* EncryptToken(token, key): rand.Reader yields any nonce.
VaultEncrypt ==
    /\ vault.pc = "input"
    /\ \E nonce \in Nonces :
         vault' = [vault EXCEPT !.pc = "encrypted",
                                !.encrypted = <<EncryptToken(vault.token, vault.key, nonce)>>]
    /\ UNCHANGED <<blVars, fwVars, svVars, foVars, rlVars, rtVars, mgVars>>
    /\ UNCHANGED <<enVars, rcVars, mdVars, crVars, wVars>>

\* DecryptToken(encrypted, key) of the blob EncryptToken returned, under the
\* key it was made with or under another one.
VaultDecrypt(key) ==
    /\ vault.pc = "encrypted"
    /\ \A i \in DOMAIN vault.decrypted : vault.decrypted[i].key # key
    /\ vault' = [vault EXCEPT !.decrypted =
                    Append(@, [key |-> key,
                               out |-> DecryptToken(vault.encrypted[1], key)])]
    /\ UNCHANGED <<blVars, fwVars, svVars, foVars, rlVars, rtVars, mgVars>>
    /\ UNCHANGED <<enVars, rcVars, mdVars, crVars, wVars>>

CvStart ==
    /\ BlIdle /\ FwInit /\ SvInit
    /\ RlIdle /\ RtIdle /\ MgIdle /\ FoIdle /\ EnIdle /\ RcIdle /\ MdIdle /\ CrIdle
    /\ WIdle
    /\ \E token \in VaultTokens, key \in EncryptionKeys :
         vault = [NoVault EXCEPT !.pc = "input", !.token = token, !.key = key]

CvNext ==
    \/ VaultEncrypt
    \/ \E key \in EncryptionKeys : VaultDecrypt(key)

SpecVault == CvStart /\ [][CvNext]_vars

LogLevels == {"debug", "info"}

\* strings.Fields of the text of an "/addbot <token>" message.
AddBotParts(token) == {"/addbot", token}

\* A log entry: its message, the strings its fields carry in full (ids, counts
\* and booleans left out) and the token whose first ten bytes it carries.
LogEntry(msg, strs, prefix) == [msg |-> msg, fields |-> strs, prefix |-> prefix]

\* logger.Debug: the entries are written when the level is debug.
Debug(entries, written) ==
    IF logLevel = "debug" THEN entries \cup written ELSE entries

\* The /addbot update from its receipt to the transaction of handleAddBot, with
\* the entries HandleUpdate, HandleCommand and handleAddBot log on the way.
AddBotLogged(c, token) ==
    /\ AddBotCheck(c, token)
    /\ logEntries' = Debug(logEntries,
          {LogEntry("ManagerBot message received", AddBotParts(token), ""),
           LogEntry("Processing command", AddBotParts(token), ""),
           LogEntry("ManagerBot command received", AddBotParts(token), ""),
           LogEntry("Handling /addbot command", {}, ""),
           LogEntry("Processing /addbot command", AddBotParts(token), ""),
           LogEntry("Extracted bot token", {}, token),
           LogEntry("Validating bot token", {}, token)}
          \cup (IF adding'[c].pc = "tx"
                THEN {LogEntry("Encrypting bot token", {}, token),
                      LogEntry("Bot token encrypted successfully", {}, token)}
                ELSE {LogEntry("Command handling completed with error",
                               AddBotParts(token), "")}))
    /\ UNCHANGED logLevel

CrStart ==
    /\ BlIdle /\ FwInit /\ SvInit
    /\ RlIdle /\ RtIdle /\ MgIdle /\ FoIdle /\ EnIdle /\ RcIdle /\ MdIdle /\ CvIdle
    /\ WIdle
    /\ logLevel \in LogLevels
    /\ logEntries = {}

CrNext ==
    \/ \E c \in AddCalls, token \in Tokens : AddBotLogged(c, token)
    \/ \E c \in AddCalls : AddBotTx(c)
    \/ \E c \in AddCalls : AddBotStart(c)
    \/ \E h \in DOMAIN instances, polled \in DbOutcome : BotStartPolling(h, polled)

SpecCredential == CrStart /\ [][CrNext]_vars

\* C28: no log entry carries a plaintext credential in a field, no row of
\* forwarder_bots stores one (the token column holds the output of EncryptToken
\* only) and no answer to the user of /addbot is one.
C28_NoPlaintext ==
    /\ \A e \in logEntries : e.fields \cap Tokens = {}
    /\ \A i \in DOMAIN botRows :
          /\ botRows[i].token \notin Tokens
          /\ \E token \in Tokens, nonce \in Nonces \cup DOMAIN botRows :
                botRows[i].token = EncryptToken(token, EncryptionKey, nonce)
    /\ \A c \in AddCalls : adding[c].ret \notin Tokens

(***************************************************************************)
(* The guest rate gate of ForwardToRecipients: between the guest's row and *)
(* the start of the recipients' goroutines.                                *)
(***************************************************************************)
\* The gate looping until the bucket answers yes.
AfterRecheckStrict(allowed) == IF allowed THEN "open" ELSE "wait"

\* What follows the re-check after the delay: the fan-out, whatever it answered.
AfterRecheck(allowed) == "open"

\* RateLimiter.AllowGuestMessage on the guest's bucket: a token is taken when
\* there is one.
AllowGuestMessage == guestTokens >= 1

TakeGuestToken == IF AllowGuestMessage THEN guestTokens - 1 ELSE guestTokens

\* ForwardToRecipients from its call to the gate's first check: the recipients
\* are loaded and the guest's row made; with no recipients or a failed read it
\* returns before the gate.
GateArrive(m) ==
    /\ fwd = <<>>
    /\ updateId < MaxUpdates
    /\ updateId' = updateId + 1
    /\ nextId' = [nextId EXCEPT ![m.chat] = @ + 1]
    /\ ForwardToRecipients(m.chat, nextId[m.chat])
    /\ IF fwd' = <<>>
       THEN UNCHANGED gtVars
       ELSE /\ gate' = [pc |-> IF AllowGuestMessage THEN "open" ELSE "wait",
                        chat |-> m.chat, msg |-> nextId[m.chat], checks |-> 1,
                        allowed |-> AllowGuestMessage, waited |-> FALSE, ctxDone |-> gate.ctxDone]
            /\ guestTokens' = TakeGuestToken
    /\ UNCHANGED <<now, tickerC, blacklists, creating, ret>>
    /\ UNCHANGED <<recipients, mappings, apiTokens, forwarded, successes, dropped>>
    /\ UNCHANGED <<svVars, rlVars, rtVars, mgVars, foVars>>
    /\ UNCHANGED <<enVars, rcVars, mdVars, cvVars, crVars, lkVars, shVars>>

\* The other actions of the gate leave all but the gate, the bucket and the
\* call in progress alone.
GateFrame ==
    /\ UNCHANGED <<blVars, svVars, rlVars, rtVars, mgVars, foVars>>
    /\ UNCHANGED <<enVars, rcVars, mdVars, cvVars, crVars, lkVars, shVars>>
    /\ UNCHANGED <<recipients, nextId, mappings, result, updateId, apiTokens, forwarded,
                   successes, dropped>>

\* Another message of the guest, handled by the dispatcher at the same time,
\* takes a token of the bucket.
GuestOther ==
    /\ AllowGuestMessage
    /\ guestTokens' = TakeGuestToken
    /\ UNCHANGED <<gate, fwd, tasks>>
    /\ GateFrame

\* A second passes: the bucket is refilled and time.After(1 * time.Second) of a
\* waiting gate is ready.
GuestSecond ==
    /\ guestTokens < RateGuestMessage \/ (gate.pc = "wait" /\ ~gate.waited)
    /\ guestTokens' = RateGuestMessage
    /\ gate' = IF gate.pc = "wait" THEN [gate EXCEPT !.waited = TRUE] ELSE gate
    /\ UNCHANGED <<fwd, tasks>>
    /\ GateFrame

\* The context of the call is cancelled.
GateCancel ==
    /\ ~gate.ctxDone
    /\ gate' = [gate EXCEPT !.ctxDone = TRUE]
    /\ UNCHANGED <<guestTokens, fwd, tasks>>
    /\ GateFrame

\* The select takes <-time.After: the bucket is asked once more and the call
\* goes on to its goroutines.
GateRecheck ==
    /\ gate.pc = "wait"
    /\ gate.waited
    /\ gate' = [gate EXCEPT !.pc = AfterRecheck(AllowGuestMessage),
                            !.checks = @ + 1, !.allowed = AllowGuestMessage,
                            !.waited = FALSE]
    /\ guestTokens' = TakeGuestToken
    /\ UNCHANGED <<fwd, tasks>>
    /\ GateFrame

\* The select takes <-ctx.Done(): the call returns ctx.Err() and no goroutine
\* is started.
GateCtxDone ==
    /\ gate.pc = "wait"
    /\ gate.ctxDone
    /\ gate' = [gate EXCEPT !.pc = "cancelled", !.waited = FALSE]
    /\ fwd' = <<>>
    /\ tasks' = <<>>
    /\ UNCHANGED guestTokens
    /\ GateFrame

GtStart == BlIdle /\ FwInit /\ SvInit /\ XIdle

GtNext ==
    \/ GateArrive(FoGuest)
    \/ GuestOther
    \/ GuestSecond
    \/ GateCancel
    \/ GateRecheck
    \/ GateCtxDone
    \/ \E r \in DOMAIN tasks : gate.pc = "open" /\ TaskForward(r) /\ UNCHANGED foVars
    \/ \E r \in DOMAIN tasks : gate.pc = "open" /\ TaskCreateMapping(r)
    \/ gate.pc = "open" /\ ForwardDone /\ UNCHANGED foVars
    \/ Refill

SpecGate == GtStart /\ [][GtNext]_vars

\* The ForwardMessage calls made for the message the gate is about.
GateForwards == {f \in forwarded : f.from = gate.chat /\ f.msg = gate.msg}

\* C31: a message is forwarded only once its gate is open; a gate that found
\* the bucket empty leaves its wait either to the fan-out, after exactly one
\* more check whatever that check answers, or, with the context cancelled, to
\* a return with nothing forwarded; no gate makes more than two checks.
C31_GateOnce ==
    /\ [](/\ gate.pc \in {"wait", "cancelled"} => GateForwards = {}
          /\ gate.pc = "wait" => gate.checks = 1
          /\ gate.pc = "cancelled" => gate.ctxDone /\ gate.checks = 1 /\ fwd = <<>>
          /\ gate.checks <= 2)
    /\ [][gate.pc = "wait" /\ gate' # gate /\ gate'.msg = gate.msg
          => \/ gate'.pc = "wait" /\ gate'.checks = gate.checks
             \/ gate'.pc = "open" /\ gate'.checks = 2 /\ fwd' = fwd /\ tasks' = tasks
             \/ gate'.pc = "cancelled" /\ gate.ctxDone]_vars

\* C31 witness: the second check was refused as well and the message was
\* forwarded all the same.
C31_Witness ==
    /\ gate.pc = "open"
    /\ gate.checks = 2
    /\ ~gate.allowed
    /\ GateForwards # {}

(***************************************************************************)
(* The goroutines of one ForwardToRecipients call step by step, with the   *)
(* mutex of the result and the mutex of the error notifier.                *)
(***************************************************************************)
\* The recipients' goroutines, named by the chat they forward to.
LkTasks == {r.chat : r \in InitRecipients}

\* Another caller of the process-wide ErrorNotifier.
EnOther == 99

\* How a ForwardMessage call ends.
LkOutcome == {"ok", "500", "401"}

\* A mutex nobody holds.
Free == 0

\* An Unlock that leaves the mutex with its holder.
UnlockLeak(holder) == holder

\* sync.Mutex.Unlock by the holder.
Unlock(holder) == Free

\* The select of Retry and the timers of the platform calls are left when the
\* call returns; the goroutine's position r is then at the mutex.
LkSet(r, pc, attempts, err) ==
    lkTasks' = [lkTasks EXCEPT ![r] = [pc |-> pc, attempts |-> attempts, err |-> err]]

\* ForwardToRecipients is past its gate and starts a goroutine per recipient.
LkBegin ==
    /\ lkCall.pc = "none"
    /\ lkCall' = [lkCall EXCEPT !.pc = "run"]
    /\ UNCHANGED <<lkTasks, lkMu, enMu>>

\* AllowTelegramAPI refuses: the goroutine goes to count the failure.
LkRateLimited(r) ==
    /\ lkCall.pc = "run"
    /\ lkTasks[r].pc = "start"
    /\ LkSet(r, "lock", 0, "rate limit exceeded")
    /\ UNCHANGED <<lkMu, enMu, lkCall>>

\* One round of Retry: fn is called; nil or an error that is not retryable is
\* returned, the last round returns the wrapped error, and any other round
\* waits the interval and goes round again.
LkAttempt(r, out) ==
    /\ lkCall.pc = "run"
    /\ lkTasks[r].pc \in {"start", "retry"}
    /\ lkTasks[r].attempts < MaxAttempts
    /\ LET i == lkTasks[r].attempts + 1
       IN  IF out = "ok" \/ ~isRetryableError(out) THEN LkSet(r, "lock", i, out)
           ELSE IF i = MaxAttempts THEN LkSet(r, "lock", i, Wrap(out))
           ELSE LkSet(r, "retry", i, out)
    /\ UNCHANGED <<lkMu, enMu, lkCall>>

\* mu.Lock()
LkLock(r) ==
    /\ lkTasks[r].pc = "lock"
    /\ lkMu = Free
    /\ lkMu' = r
    /\ LkSet(r, "held", lkTasks[r].attempts, lkTasks[r].err)
    /\ UNCHANGED <<enMu, lkCall>>

\* Under mu: the result is counted; after a failed Retry the failure notice is
\* sent to the recipient and, for a 401, the error notifier is called.
LkHeld(r) ==
    /\ lkTasks[r].pc = "held"
    /\ LkSet(r, IF lkTasks[r].err \in {"ok", "rate limit exceeded"} THEN "unlock"
                ELSE IF lkTasks[r].err = "401" THEN "enLock"
                ELSE "check",
             lkTasks[r].attempts, lkTasks[r].err)
    /\ UNCHANGED <<lkMu, enMu, lkCall>>

\* NotifyCriticalError: en.mutex.Lock()
LkEnLock(r) ==
    /\ lkTasks[r].pc = "enLock"
    /\ enMu = Free
    /\ enMu' = r
    /\ LkSet(r, "enHeld", lkTasks[r].attempts, lkTasks[r].err)
    /\ UNCHANGED <<lkMu, lkCall>>

\* ... its debounce and sends, and the deferred en.mutex.Unlock().
LkEnUnlock(r) ==
    /\ lkTasks[r].pc = "enHeld"
    /\ enMu' = Unlock(enMu)
    /\ LkSet(r, "check", lkTasks[r].attempts, lkTasks[r].err)
    /\ UNCHANGED <<lkMu, lkCall>>

\* groupMonitor.CheckRecipient, still under mu.
LkCheck(r) ==
    /\ lkTasks[r].pc = "check"
    /\ LkSet(r, "unlock", lkTasks[r].attempts, lkTasks[r].err)
    /\ UNCHANGED <<lkMu, enMu, lkCall>>

\* mu.Unlock() and the deferred wg.Done().
LkUnlock(r) ==
    /\ lkTasks[r].pc = "unlock"
    /\ lkMu' = Unlock(lkMu)
    /\ LkSet(r, "done", lkTasks[r].attempts, lkTasks[r].err)
    /\ UNCHANGED <<enMu, lkCall>>

\* The steps of goroutine r.
LkTask(r) ==
    \/ LkRateLimited(r)
    \/ \E out \in LkOutcome : LkAttempt(r, out)
    \/ LkLock(r)
    \/ LkHeld(r)
    \/ LkEnLock(r)
    \/ LkEnUnlock(r)
    \/ LkCheck(r)
    \/ LkUnlock(r)

\* wg.Wait() returns and ForwardToRecipients returns its result.
LkWait ==
    /\ lkCall.pc = "run"
    /\ \A r \in LkTasks : lkTasks[r].pc = "done"
    /\ lkCall' = [lkCall EXCEPT !.pc = "returned"]
    /\ UNCHANGED <<lkTasks, lkMu, enMu>>

\* Another pipeline calls NotifyCriticalError ...
EnOtherLock ==
    /\ lkCall.others < MaxNotifyCalls
    /\ enMu = Free
    /\ enMu' = EnOther
    /\ lkCall' = [lkCall EXCEPT !.others = @ + 1]
    /\ UNCHANGED <<lkTasks, lkMu>>

\* ... and returns from it.
EnOtherUnlock ==
    /\ enMu = EnOther
    /\ enMu' = Unlock(enMu)
    /\ UNCHANGED <<lkTasks, lkMu, lkCall>>

LkFrame ==
    /\ UNCHANGED <<blVars, fwVars, svVars, foVars, rlVars, rtVars, mgVars>>
    /\ UNCHANGED <<enVars, rcVars, mdVars, cvVars, crVars, gtVars, shVars>>

LkStart == BlIdle /\ FwInit /\ SvInit /\ XIdle

LkNext ==
    \/ LkBegin /\ LkFrame
    \/ \E r \in LkTasks : LkTask(r) /\ LkFrame
    \/ LkWait /\ LkFrame
    \/ EnOtherLock /\ LkFrame
    \/ EnOtherUnlock /\ LkFrame

SpecLocks == LkStart /\ [][LkNext]_vars

\* Every goroutine that can run does run, a mutex that stays free is taken by
\* the goroutine that waits for it, and each external call returns.
SpecLocksFair ==
    /\ SpecLocks
    /\ \A r \in LkTasks : WF_vars(LkTask(r) /\ LkFrame)
    /\ WF_vars(LkWait /\ LkFrame)
    /\ WF_vars(EnOtherUnlock /\ LkFrame)

\* C32: the call returns in the end, whatever the goroutines' forwards answer
\* and however they and other callers of the error notifier take the two
\* mutexes; and no goroutine makes more than max_attempts forward attempts.
C32_Returns ==
    /\ (lkCall.pc = "run") ~> (lkCall.pc = "returned")
    /\ [](\A r \in LkTasks : lkTasks[r].attempts <= MaxAttempts)

\* C32 witness: the call returned after both goroutines used up their attempts,
\* one ending on a 401 that took it through the error notifier under the mutex.
C32_Witness ==
    /\ lkCall.pc = "returned"
    /\ \A r \in LkTasks : lkTasks[r].attempts = MaxAttempts
    /\ \E r \in LkTasks : lkTasks[r].err = "401"
    /\ lkCall.others > 0

(***************************************************************************)
(* Process shutdown: main, after the interrupt signal, cancels the root    *)
(* context, stops the manager bot, calls BotManager.StopAll and waits for  *)
(* the bots' goroutines (cmd/bot/main.go:209-218).                         *)
(***************************************************************************)
ShFrame ==
    /\ UNCHANGED <<blVars, fwVars, foVars, rlVars, rtVars, mgVars>>
    /\ UNCHANGED <<enVars, rcVars, mdVars, cvVars, crVars, gtVars, lkVars>>

\* The positions of main at which a handler of the manager bot can still be
\* running: ManagerBot.Stop returns from updater.Stop() once the dispatcher's
\* handlers have finished.
HandlersRunning == {"serving", "cancelled"}

\* main's cancel(): the root context, which is bm.ctx, is done.
CancelRoot ==
    /\ main.pc = "serving"
    /\ main' = [main EXCEPT !.pc = "cancelled", !.ctxDone = TRUE]
    /\ UNCHANGED svVars
    /\ ShFrame

\* managerBotInstance.Stop()
ManagerBotStop ==
    /\ main.pc = "cancelled"
    /\ main' = [main EXCEPT !.pc = "managerStopped"]
    /\ UNCHANGED svVars
    /\ ShFrame

\* The map StopAll leaves with every entry kept.
NotCleared(m) == m

\* bm.bots = make(map[uuid.UUID]*ForwarderBot)
Cleared(m) == <<>>

\* BotManager.StopAll, under bm.mu: ForwarderBot.Stop on every bot of the map,
\* then the map is replaced by an empty one.
StopAll ==
    /\ main.pc = "managerStopped"
    /\ main' = [main EXCEPT !.pc = "stoppedAll", !.botCount = Cardinality(DOMAIN bots)]
    /\ instances' = [h \in DOMAIN instances |->
                        IF \E b \in DOMAIN bots : bots[b] = h
                        THEN [instances[h] EXCEPT !.stopped = TRUE, !.polling = FALSE]
                        ELSE instances[h]]
    /\ bots' = Cleared(bots)
    /\ UNCHANGED startCalls
    /\ ShFrame

\* bm.wg: startBot adds one for each goroutine it starts and the goroutine
\* gives it back when ForwarderBot.Start returns.
WaitGroup == Cardinality({h \in DOMAIN instances : instances[h].pc # "exit"})

\* BotManager.Wait returns: bm.wg.Wait() finds the counter at zero.
Wait ==
    /\ main.pc = "stoppedAll"
    /\ WaitGroup = 0
    /\ main' = [main EXCEPT !.pc = "complete"]
    /\ UNCHANGED svVars
    /\ ShFrame

ShStart == BlIdle /\ FwInit /\ SvInit /\ XIdle

ShNext ==
    \/ \E b \in BotIDs, db \in DbOutcome, built \in DbOutcome :
          main.pc \in HandlersRunning /\ startBot(b, db, built) /\ UNCHANGED mgVars
    \/ \E b \in BotIDs :
          main.pc \in HandlersRunning /\ stopBot(b) /\ UNCHANGED mgVars
    \/ \E h \in DOMAIN instances, polled \in DbOutcome : BotStartPolling(h, polled)
    \/ \E h \in DOMAIN instances : BotReturn(h)
    \/ CancelRoot
    \/ ManagerBotStop
    \/ StopAll
    \/ Wait

SpecShutdown == ShStart /\ [][ShNext]_vars

\* The goroutines that startBot can have started.
MaxInstances == 1..(MaxStarts * Cardinality(BotIDs))

\* Each started goroutine is scheduled, and so is main.
SpecShutdownFair ==
    /\ SpecShutdown
    /\ \A h \in MaxInstances :
          /\ WF_vars(\E polled \in DbOutcome : BotStartPolling(h, polled))
          /\ WF_vars(BotReturn(h))
    /\ WF_vars(Wait)

\* C40: once main has cancelled the root context and StopAll has returned, the
\* supervisor's map is empty, every bot goroutine returns, and Wait returns
\* with no goroutine left.
C40_ShutdownCompletes ==
    /\ [](main.pc \in {"stoppedAll", "complete"} => main.ctxDone /\ bots = <<>>)
    /\ [](main.pc = "complete" => \A h \in DOMAIN instances : instances[h].pc = "exit")
    /\ ((main.pc = "stoppedAll") ~> (main.pc = "complete"))

\* Shutdown is complete after StopAll found two bots in the map.
C40_Witness ==
    /\ main.pc = "complete"
    /\ main.botCount = Cardinality(BotIDs)

Init == BlIdle /\ FwInit /\ SvInit /\ XIdle
Next ==
    \/ BlNext \/ FwNext \/ SvNext \/ MgNext \/ RlNext \/ RtNext \/ FoNext \/ EnNext
    \/ RcNext \/ MdNext \/ CvNext \/ CrNext \/ GtNext \/ LkNext \/ PrNext \/ ShNext
Spec == Init /\ [][Next]_vars
====
